---- MODULE Spec2Model ----
(***************************************************************************)
(* Credential lifecycle engine of auth-service-2: the auth service        *)
(* (Register, Login, RefreshToken, Logout, ValidateToken), the JWT codec,  *)
(* the token blacklist kept in Redis and the user / refresh-token tables   *)
(* kept in Postgres.  Every request runs on its own worker; RefreshToken   *)
(* and Logout are modelled one store call per step, so that concurrent     *)
(* requests interleave exactly at the store calls.  Time is a discrete     *)
(* clock counted in seconds.                                               *)
(***************************************************************************)
EXTENDS Integers, Sequences, FiniteSets, Bags, TLC

(***************************************************************************)
(* Bounds of the model.                                                    *)
(***************************************************************************)
\* last instant of the clock
MaxTime == 2
\* number of requests that get past their first check: logins and
\* registrations that reach the issuance of a token pair, RefreshToken calls
\* that pass the codec check, Logout calls that carry a token, revocations
MaxRequests == 3
\* resolution of the clock the rate limiter reads: ticks in a second
TicksPerSecond == 2
\* the longest JWT_SECRET tried, in characters
MaxSecret == 33
\* concurrent request workers
Workers == {"w1", "w2"}

(***************************************************************************)
(* Configuration (seconds).  The lifetimes are configuration values; the   *)
(* model keeps access < refresh, as the defaults 15m / 7d do.              *)
(***************************************************************************)
accessTokenExpiry == 1
refreshTokenExpiry == 2
\* the first instant at which the record of a token issued at 0 has run out
\* (part_003 line 143: now after expires_at): a call that the codec let
\* through at refreshTokenExpiry finds its record expired then
AfterExpiry == refreshTokenExpiry + 1
\* rate limit: requests per window, and the window (seconds)
RateLimitRequests == 2
RateLimitWindow == 1
\* time.Minute (seconds)
Minute == 60
\* config.Load: the least len() of the signing secret
MinSecretLen == 32

None == [none |-> TRUE]
\* time.Time zero value / NULL last_login_at / a Redis key without expiry
NoTime == -1

(***************************************************************************)
(* utils/validator.go: strings are sequences of one-character strings.     *)
(***************************************************************************)
LowerSeq == << "a","b","c","d","e","f","g","h","i","j","k","l","m",
               "n","o","p","q","r","s","t","u","v","w","x","y","z" >>
UpperSeq == << "A","B","C","D","E","F","G","H","I","J","K","L","M",
               "N","O","P","Q","R","S","T","U","V","W","X","Y","Z" >>
DigitSeq == << "0","1","2","3","4","5","6","7","8","9" >>

Range(s) == { s[i] : i \in DOMAIN s }
LowerChars == Range(LowerSeq)
UpperChars == Range(UpperSeq)
DigitChars == Range(DigitSeq)
LetterChars == LowerChars \cup UpperChars
\* [a-zA-Z0-9._%+\-]
EmailLocalChars == LetterChars \cup DigitChars \cup {".", "_", "%", "+", "-"}
\* [a-zA-Z0-9.\-]
EmailDomainChars == LetterChars \cup DigitChars \cup {".", "-"}
\* unicode.IsSpace on the characters the model uses: the space and the tab
SpaceChars == {" ", "\t"}
\* the characters that take two bytes in UTF-8
TwoByteChars == {"é", "ö", "ñ", "µ", "μ"}
\* len(s): the length of the string in bytes
StringLen(s) == Len(s) + Cardinality({ i \in DOMAIN s : s[i] \in TwoByteChars })

\* ^[a-zA-Z0-9._%+\-]+@[a-zA-Z0-9.\-]+\.[a-zA-Z]{2,}$
ValidateEmail(email) ==
    \E at \in DOMAIN email : \E dot \in DOMAIN email :
        /\ at > 1
        /\ email[at] = "@"
        /\ dot > at + 1
        /\ email[dot] = "."
        /\ Len(email) - dot >= 2
        /\ \A i \in 1..(at - 1) : email[i] \in EmailLocalChars
        /\ \A i \in (at + 1)..(dot - 1) : email[i] \in EmailDomainChars
        /\ \A i \in (dot + 1)..Len(email) : email[i] \in LetterChars

\* len(password) < 8 counts bytes; the three classes are ASCII ranges
ValidatePassword(password) ==
    IF StringLen(password) < 8 THEN FALSE
    ELSE /\ \E i \in DOMAIN password : password[i] \in UpperChars
         /\ \E i \in DOMAIN password : password[i] \in LowerChars
         /\ \E i \in DOMAIN password : password[i] \in DigitChars

ToLowerChar(c) ==
    IF c \in UpperChars
    THEN LowerSeq[CHOOSE i \in DOMAIN UpperSeq : UpperSeq[i] = c]
    ELSE c

ToLower(s) == [i \in DOMAIN s |-> ToLowerChar(s[i])]

RECURSIVE TrimLeft(_)
TrimLeft(s) == IF s # << >> /\ Head(s) \in SpaceChars THEN TrimLeft(Tail(s)) ELSE s

RECURSIVE TrimRight(_)
TrimRight(s) ==
    IF s # << >> /\ s[Len(s)] \in SpaceChars
    THEN TrimRight(SubSeq(s, 1, Len(s) - 1))
    ELSE s

TrimSpace(s) == TrimRight(TrimLeft(s))

SanitizeEmail(email) == ToLower(TrimSpace(email))

(***************************************************************************)
(* The binding of a request (gin's ShouldBindJSON with the validator tags  *)
(* of the dto): "required" rejects the empty string, "email" is the        *)
(* validator's pattern  local@domain  with a dot-atom or a quoted string   *)
(* for the local part and a domain of at least two labels, the last one    *)
(* bounded by letters, "min=8" counts characters.  The characters are the  *)
(* printable ones but the backslash, the space and the tab.                *)
(***************************************************************************)
\* characters of [\x{00A0}-\x{D7FF}\x{F900}-\x{FDCF}\x{FDF0}-\x{FFEF}]
NonASCIIChars == {"é", "ö", "ñ"}
\* \x20 and \x09
BlankChars == {" ", "\t"}
\* the printable characters of ASCII that are neither letters nor digits
PunctChars == {"!", "\"", "#", "$", "%", "&", "'", "(", ")", "*", "+", ",", "-", ".", "/",
               ":", ";", "<", "=", ">", "?", "@", "[", "]", "^", "_", "backquote",
               "{", "|", "}", "~"}
AtextChars == LetterChars \cup DigitChars \cup NonASCIIChars \cup
              {"!", "#", "$", "%", "&", "'", "*", "+", "-", "/", "=", "?", "^", "_",
               "backquote", "{", "|", "}", "~"}
\* \x21, [\x23-\x5b], [\x5d-\x7e]: all but the quote
QtextChars == (LetterChars \cup DigitChars \cup PunctChars \cup NonASCIIChars) \ {"\""}
BindAlphaChars == LetterChars \cup NonASCIIChars
BindAlnumChars == LetterChars \cup DigitChars \cup NonASCIIChars
BindDomainChars == BindAlnumChars \cup {"-", ".", "~"}

DotAtom(l) ==
    /\ l # << >>
    /\ \A i \in DOMAIN l : l[i] \in AtextChars \cup {"."}
    /\ l[1] # "." /\ l[Len(l)] # "."
    /\ \A i \in 1..(Len(l) - 1) : ~(l[i] = "." /\ l[i + 1] = ".")

\* a quoted string: between two quotes, blanks and characters other than
\* the quote (the backslash is not among the characters of the model)
QuotedString(l) ==
    /\ Len(l) >= 2
    /\ l[1] = "\"" /\ l[Len(l)] = "\""
    /\ \A i \in 2..(Len(l) - 1) : l[i] \in QtextChars \cup BlankChars

BindDomain(d) ==
    LET e == IF d # << >> /\ d[Len(d)] = "." THEN SubSeq(d, 1, Len(d) - 1) ELSE d
    IN /\ \A i \in DOMAIN e : e[i] \in BindDomainChars
       /\ \E dot \in DOMAIN e :
             /\ 1 < dot /\ dot < Len(e)
             /\ e[dot] = "."
             /\ e[1] \in BindAlnumChars
             /\ e[dot - 1] \in BindAlnumChars
             /\ e[dot + 1] \in BindAlphaChars
             /\ e[Len(e)] \in BindAlphaChars

\* the tag "email"
BindEmail(email) ==
    \E at \in DOMAIN email :
        /\ email[at] = "@"
        /\ (DotAtom(SubSeq(email, 1, at - 1)) \/ QuotedString(SubSeq(email, 1, at - 1)))
        /\ BindDomain(SubSeq(email, at + 1, Len(email)))

\* the tag each field fails on, in the order of the fields ("" for none);
\* min is the least length of the password (0 when the tag is absent)
BindFailures(email, password, min) ==
    << IF email = << >> THEN "required" ELSE IF ~BindEmail(email) THEN "email" ELSE "",
       IF password = << >> THEN "required" ELSE IF Len(password) < min THEN "min" ELSE "" >>

\* c.ShouldBindJSON(&req) for a RegisterRequest and for a LoginRequest
BindRegisterOK(email, password) == BindFailures(email, password, 8) = << "", "" >>
BindLoginOK(email, password) == BindFailures(email, password, 0) = << "", "" >>

(***************************************************************************)
(* utils password hashing: bcrypt digest of a password; the digest is a    *)
(* value distinct from the password and verifies exactly that password.    *)
(***************************************************************************)
HashPassword(password) == [bcrypt |-> password]
CheckPasswordHash(password, hash) == hash = [bcrypt |-> password]

(***************************************************************************)
(* Go error values.  msg is the chain of message fragments joined by ": "  *)
(* in err.Error() (a formatted argument such as an e-mail address is left  *)
(* as a placeholder); sentinel is the repository sentinel at the bottom of *)
(* the chain, wrapped says that it is reached through fmt.Errorf("%w").    *)
(***************************************************************************)
Err(msg, sentinel, wrapped) == [msg |-> msg, sentinel |-> sentinel, wrapped |-> wrapped]
NewErr(text) == Err(<< text >>, "none", FALSE)
\* fmt.Errorf("<text>: %w", err)
Wrap(text, err) == Err(<< text >> \o err.msg, err.sentinel, TRUE)
\* the Go comparison  err == repository.ErrX : true only of the sentinel itself
EqualsSentinel(err, name) == err.sentinel = name /\ ~err.wrapped

ErrNotFound == Err(<< "record not found" >>, "ErrNotFound", FALSE)
ErrDuplicateEmail == Err(<< "user with this email already exists" >>, "ErrDuplicateEmail", FALSE)
ErrDuplicateToken == Err(<< "token with this hash already exists" >>, "ErrDuplicateToken", FALSE)
\* an error of the database or Redis driver (connection lost, timeout, ...)
DriverErr == NewErr("driver error")

\* message fragments that contain the text "already exists"
AlreadyExistsFragments ==
    { "user with this email already exists",
      "token with this hash already exists",
      "user with email <email> already exists",
      "token with hash already exists" }
\* strings.Contains(err.Error(), "already exists")
ContainsAlreadyExists(err) == \E i \in DOMAIN err.msg : err.msg[i] \in AlreadyExistsFragments

(***************************************************************************)
(* utils/jwt.go.  A token string is the record of what it encodes: the     *)
(* algorithm of its header, the key it was signed with and its claims.     *)
(***************************************************************************)
secret == "secret"

\* the methods of type *jwt.SigningMethodHMAC, which the key function accepts
HMACMethods == {"HS256", "HS384", "HS512"}

SignedHS256(claims) == [alg |-> "HS256", key |-> secret, claims |-> claims]

GenerateAccessToken(userID, email, t) ==
    SignedHS256([user_id |-> userID, email |-> email,
                 exp |-> t + accessTokenExpiry, iat |-> t])

\* a refresh token without a jti of its own
GenerateRefreshToken_noJti(userID, t, id) ==
    SignedHS256([user_id |-> userID, exp |-> t + refreshTokenExpiry, iat |-> t,
                 type |-> "refresh", jti |-> 0])

\* id is the value of uuid.New()
GenerateRefreshToken(userID, t, id) ==
    SignedHS256([user_id |-> userID, exp |-> t + refreshTokenExpiry, iat |-> t,
                 type |-> "refresh", jti |-> id])

\* jwt.Parse with the key function of the manager: the method must be an
\* HMAC one, the signature must verify under the secret and the registered
\* exp claim, when present, must lie in the future.
ParseOK(tok, t) ==
    /\ tok.alg \in HMACMethods
    /\ tok.key = secret
    /\ ("exp" \in DOMAIN tok.claims => t < tok.claims.exp)

HasClaim(tok, name) == name \in DOMAIN tok.claims

\* a verification that does not look at the type claim
ValidateRefreshToken_anyType(tok, t) ==
    IF ~ParseOK(tok, t) THEN [err |-> NewErr("failed to parse token"), user_id |-> ""]
    ELSE IF ~HasClaim(tok, "user_id") THEN [err |-> NewErr("invalid user_id in token"), user_id |-> ""]
    ELSE IF ~HasClaim(tok, "exp") THEN [err |-> NewErr("invalid exp in token"), user_id |-> ""]
    ELSE IF t > tok.claims.exp THEN [err |-> NewErr("token is expired"), user_id |-> ""]
    ELSE [err |-> None, user_id |-> tok.claims.user_id]

\* returns [err, user_id]
ValidateRefreshToken(tok, t) ==
    IF ~ParseOK(tok, t) THEN [err |-> NewErr("failed to parse token"), user_id |-> ""]
    ELSE IF ~(HasClaim(tok, "type") /\ tok.claims.type = "refresh")
         THEN [err |-> NewErr("invalid token type"), user_id |-> ""]
    ELSE IF ~HasClaim(tok, "user_id") THEN [err |-> NewErr("invalid user_id in token"), user_id |-> ""]
    ELSE IF ~HasClaim(tok, "exp") THEN [err |-> NewErr("invalid exp in token"), user_id |-> ""]
    ELSE IF t > tok.claims.exp THEN [err |-> NewErr("token is expired"), user_id |-> ""]
    ELSE [err |-> None, user_id |-> tok.claims.user_id]

\* a validation that takes a missing email claim for an empty one
JWTValidateToken_emailOptional(tok, t) ==
    IF ~ParseOK(tok, t) THEN [err |-> NewErr("failed to parse token"), claims |-> None]
    ELSE IF ~HasClaim(tok, "user_id") THEN [err |-> NewErr("invalid user_id in token"), claims |-> None]
    ELSE IF ~HasClaim(tok, "exp") THEN [err |-> NewErr("invalid exp in token"), claims |-> None]
    ELSE IF ~HasClaim(tok, "iat") THEN [err |-> NewErr("invalid iat in token"), claims |-> None]
    ELSE IF t > tok.claims.exp THEN [err |-> NewErr("token is expired"), claims |-> None]
    ELSE [err |-> None,
          claims |-> [user_id |-> tok.claims.user_id,
                      email |-> IF HasClaim(tok, "email") THEN tok.claims.email ELSE << >>,
                      exp |-> tok.claims.exp, iat |-> tok.claims.iat]]

\* JWTManager.ValidateToken: returns [err, claims]
JWTValidateToken(tok, t) ==
    IF ~ParseOK(tok, t) THEN [err |-> NewErr("failed to parse token"), claims |-> None]
    ELSE IF ~HasClaim(tok, "user_id") THEN [err |-> NewErr("invalid user_id in token"), claims |-> None]
    ELSE IF ~HasClaim(tok, "email") THEN [err |-> NewErr("invalid email in token"), claims |-> None]
    ELSE IF ~HasClaim(tok, "exp") THEN [err |-> NewErr("invalid exp in token"), claims |-> None]
    ELSE IF ~HasClaim(tok, "iat") THEN [err |-> NewErr("invalid iat in token"), claims |-> None]
    ELSE IF t > tok.claims.exp THEN [err |-> NewErr("token is expired"), claims |-> None]
    ELSE [err |-> None,
          claims |-> [user_id |-> tok.claims.user_id, email |-> tok.claims.email,
                      exp |-> tok.claims.exp, iat |-> tok.claims.iat]]

\* authService.hashToken: the SHA-256 digest, a value distinct from the token
hashToken(tok) == [sha256 |-> tok]

(***************************************************************************)
(* Repositories (Postgres).  A table is the set of its rows; fail says     *)
(* that the driver call of this invocation returns an error.  Each         *)
(* operator returns the error and what the call read or left in the table. *)
(***************************************************************************)
UserGetByEmail(tbl, email, fail) ==
    IF fail THEN [err |-> Wrap("failed to get user by email", DriverErr), user |-> None]
    ELSE IF \E u \in tbl : u.email = email
         THEN [err |-> None, user |-> CHOOSE u \in tbl : u.email = email]
         ELSE [err |-> Wrap("user with email <email> not found", ErrNotFound), user |-> None]

UserGetByID(tbl, id, fail) ==
    IF fail THEN [err |-> Wrap("failed to get user by id", DriverErr), user |-> None]
    ELSE IF \E u \in tbl : u.id = id
         THEN [err |-> None, user |-> CHOOSE u \in tbl : u.id = id]
         ELSE [err |-> Wrap("user with id <id> not found", ErrNotFound), user |-> None]

\* INSERT INTO users; email is UNIQUE
UserCreate(tbl, user, fail) ==
    IF fail THEN [err |-> Wrap("failed to create user", DriverErr), tbl |-> tbl]
    ELSE IF \E u \in tbl : u.email = user.email
         THEN [err |-> Wrap("user with email <email> already exists", ErrDuplicateEmail), tbl |-> tbl]
         ELSE [err |-> None, tbl |-> tbl \cup {user}]

UserUpdateLastLogin(tbl, id, t, fail) ==
    IF fail THEN [err |-> Wrap("failed to update last login", DriverErr), tbl |-> tbl]
    ELSE IF ~\E u \in tbl : u.id = id
         THEN [err |-> Wrap("user with id <id> not found", ErrNotFound), tbl |-> tbl]
         ELSE [err |-> None,
               tbl |-> { IF u.id = id THEN [u EXCEPT !.last_login_at = t] ELSE u : u \in tbl }]

\* UPDATE users SET email, password_hash, is_active WHERE id = $1, then
\* RowsAffected; email is UNIQUE
UserUpdate(tbl, user, fail) ==
    IF fail THEN [err |-> Wrap("failed to update user", DriverErr), tbl |-> tbl]
    ELSE IF ~\E u \in tbl : u.id = user.id
         THEN [err |-> Wrap("user with id <id> not found", ErrNotFound), tbl |-> tbl]
         ELSE IF \E u \in tbl : u.id # user.id /\ u.email = user.email
         THEN [err |-> Wrap("user with email <email> already exists", ErrDuplicateEmail), tbl |-> tbl]
         ELSE [err |-> None,
               tbl |-> { IF u.id = user.id
                         THEN [u EXCEPT !.email = user.email,
                                        !.password_hash = user.password_hash,
                                        !.is_active = user.is_active]
                         ELSE u : u \in tbl }]

\* INSERT INTO refresh_tokens; token_hash is UNIQUE and user_id REFERENCES
\* users(id) (utbl is the users table): the unique index is checked when the
\* row is inserted, the foreign key after it, and only the unique violation
\* has an error of its own.  The id of the row is a uuid.New(), numbered here
\* as the token the row is the record of
TokenCreate(tbl, utbl, row, fail) ==
    IF fail THEN [err |-> Wrap("failed to create token", DriverErr), tbl |-> tbl]
    ELSE IF \E r \in tbl : r.token_hash = row.token_hash
         THEN [err |-> Wrap("token with hash already exists", ErrDuplicateToken), tbl |-> tbl]
         ELSE IF ~\E u \in utbl : u.id = row.user_id
         THEN [err |-> Wrap("failed to create token",
                            NewErr("violates foreign key constraint")), tbl |-> tbl]
         ELSE [err |-> None, tbl |-> tbl \cup {row}]

TokenGetByTokenHash(tbl, hash, fail) ==
    IF fail THEN [err |-> Wrap("failed to get token by hash", DriverErr), row |-> None]
    ELSE IF \E r \in tbl : r.token_hash = hash
         THEN [err |-> None, row |-> CHOOSE r \in tbl : r.token_hash = hash]
         ELSE [err |-> Wrap("token with hash not found", ErrNotFound), row |-> None]

\* DELETE FROM refresh_tokens WHERE token_hash = $1, then RowsAffected
TokenDeleteByTokenHash(tbl, hash, fail) ==
    IF fail THEN [err |-> Wrap("failed to delete token by hash", DriverErr), tbl |-> tbl]
    ELSE IF ~\E r \in tbl : r.token_hash = hash
         THEN [err |-> Wrap("token with hash not found", ErrNotFound), tbl |-> tbl]
         ELSE [err |-> None, tbl |-> { r \in tbl : r.token_hash # hash }]

\* DELETE FROM refresh_tokens WHERE id = $1, then RowsAffected
TokenDelete(tbl, id, fail) ==
    IF fail THEN [err |-> Wrap("failed to delete token", DriverErr), tbl |-> tbl]
    ELSE IF ~\E r \in tbl : r.id = id
         THEN [err |-> Wrap("token with id <id> not found", ErrNotFound), tbl |-> tbl]
         ELSE [err |-> None, tbl |-> { r \in tbl : r.id # id }]

\* DELETE FROM refresh_tokens WHERE expires_at < now
TokenDeleteExpired(tbl, t, fail) ==
    IF fail THEN [err |-> Wrap("failed to delete expired tokens", DriverErr), tbl |-> tbl]
    ELSE [err |-> None, tbl |-> { r \in tbl : ~(r.expires_at < t) }]

(***************************************************************************)
(* TokenBlacklistService (Redis).  An entry is the key of a token with the *)
(* instant at which Redis expires it.                                      *)
(***************************************************************************)
\* an entry that lives as long as an access token
AddToken_accessTTL(bl, tok, expiry, t, fail) ==
    IF fail THEN [err |-> Wrap("failed to add token to blacklist", DriverErr), bl |-> bl]
    ELSE [err |-> None,
          bl |-> { e \in bl : e.token # tok }
                    \cup {[token |-> tok, expire_at |-> t + accessTokenExpiry]}]

\* SET blacklist:token:<token> "1" EX expiry
AddToken(bl, tok, expiry, t, fail) ==
    IF fail THEN [err |-> Wrap("failed to add token to blacklist", DriverErr), bl |-> bl]
    ELSE [err |-> None,
          bl |-> { e \in bl : e.token # tok } \cup {[token |-> tok, expire_at |-> t + expiry]}]

\* DEL blacklist:token:<token>
RemoveToken(bl, tok, fail) ==
    IF fail THEN [err |-> Wrap("failed to remove token from blacklist", DriverErr), bl |-> bl]
    ELSE [err |-> None, bl |-> { e \in bl : e.token # tok }]

\* a lookup that reports "not blacklisted" when Redis fails
IsTokenBlacklisted_failOpen(bl, tok, t, fail) ==
    [err |-> None, blacklisted |-> ~fail /\ \E e \in bl : e.token = tok /\ t < e.expire_at]

\* EXISTS blacklist:token:<token>
IsTokenBlacklisted(bl, tok, t, fail) ==
    IF fail THEN [err |-> Wrap("failed to check token blacklist", DriverErr), blacklisted |-> FALSE]
    ELSE [err |-> None, blacklisted |-> \E e \in bl : e.token = tok /\ t < e.expire_at]

\* Redis drops the keys whose time to live has run out
RedisExpire(bl, t) == { e \in bl : t < e.expire_at }

(***************************************************************************)
(* RateLimiter (Redis sorted sets).  An instant read from the clock is the *)
(* tick it falls in and the nanoseconds elapsed within that tick; a        *)
(* duration is a number of seconds.  An entry of a sorted set is a member  *)
(* with its score.                                                         *)
(***************************************************************************)
Instant(tick, nanos) == [tick |-> tick, nanos |-> nanos]
\* t.Unix(): the seconds, the fraction dropped
Unix(t) == t.tick \div TicksPerSecond
\* t.Add(-d).Unix()
UnixBefore(t, d) == (t.tick - d * TicksPerSecond) \div TicksPerSecond
\* fmt.Sprintf("%d-%d", now.UnixNano(), now.Unix())
Member(t) == << t, Unix(t) >>

\* a removal that leaves the entries scored max
ZRemRangeByScore_belowMax(set, min, max) == { e \in set : ~(min <= e.score /\ e.score < max) }

\* ZREMRANGEBYSCORE key min max: both ends inclusive
ZRemRangeByScore(set, min, max) == { e \in set : ~(min <= e.score /\ e.score <= max) }
\* ZCARD key
ZCard(set) == Cardinality(set)
\* ZADD key score member: a member already there gets the new score
ZAdd(set, score, member) ==
    { e \in set : e.member # member } \cup { [member |-> member, score |-> score] }

\* Redis removes a sorted set that has become empty, and its time to live
\* with it: the key is gone
KeyTTL(set, ttl) == IF set = {} THEN NoTime ELSE ttl
\* EXPIRE key seconds at tick c: a key that does not exist gets no time to live
Expire(set, ttl, c, seconds) == IF set = {} THEN ttl ELSE c + seconds * TicksPerSecond

\* the outcome of a RateLimiter call: the values returned, the sorted set
\* and its expiry as the call leaves them, the number the call counted
RLResult(allowed, remaining, err, set, ttl, count) ==
    [allowed |-> allowed, remaining |-> remaining, err |-> err,
     set |-> set, ttl |-> ttl, count |-> count]

\* RateLimiter.Allow for the sorted set of its key, no other call between its
\* Redis calls; F is the set of the Redis calls that fail in this invocation
Allow(set, ttl, limit, window, t, F) ==
    LET trimmed == ZRemRangeByScore(set, 0, UnixBefore(t, window))
        kept == KeyTTL(trimmed, ttl)
        count == ZCard(trimmed)
        added == ZAdd(trimmed, Unix(t), Member(t))
    IN IF "ZRemRangeByScore" \in F
       THEN RLResult(FALSE, 0, Wrap("failed to clean old entries", DriverErr), set, ttl, 0)
       ELSE IF "ZCard" \in F
       THEN RLResult(FALSE, 0, Wrap("failed to count entries", DriverErr), trimmed, kept, 0)
       ELSE IF count >= limit
       THEN IF "ZRangeWithScores" \notin F /\ trimmed # {}
            THEN RLResult(FALSE, 0, NewErr("rate limit exceeded, try again in <d>"),
                          trimmed, kept, count)
            ELSE RLResult(FALSE, 0, NewErr("rate limit exceeded"), trimmed, kept, count)
       ELSE IF "ZAdd" \in F
       THEN RLResult(FALSE, 0, Wrap("failed to add entry", DriverErr), trimmed, kept, count)
       ELSE RLResult(TRUE, 0, None, added,
                     IF "Expire" \in F THEN kept
                     ELSE Expire(added, kept, t.tick, window + Minute),
                     count)

\* lines 96-99: max(0, limit - count)
Remaining(limit, count) == IF limit - count < 0 THEN 0 ELSE limit - count

(***************************************************************************)
(* handler/rate_limit.go: RateLimitMiddleware.  `next` says whether the    *)
(* middleware called c.Next(), status is the status it wrote itself (0 if  *)
(* it wrote none).                                                         *)
(***************************************************************************)
RateLimitFragments == { "rate limit exceeded", "rate limit exceeded, try again in <d>" }

\* a test for the message without the retry time
ContainsRateLimitExceeded_exact(err) == err.msg = << "rate limit exceeded" >>

\* strings.Contains(err.Error(), "rate limit exceeded")
ContainsRateLimitExceeded(err) == \E i \in DOMAIN err.msg : err.msg[i] \in RateLimitFragments

MWResult(status, next, remaining, allow) ==
    [status |-> status, next |-> next, remaining |-> remaining, allow |-> allow]

\* lines 21-42: with an error of Allow that is not a denial the middleware
\* calls c.Next() and returns; on every other path it calls
\* GetRemainingRequests
CallsGetRemaining(a) == a.err = None \/ ContainsRateLimitExceeded(a.err)

\* lines 20-63: a is what Allow returned, remaining what GetRemainingRequests
\* returned (0 with an error, which is dropped), where it was called
RateLimitMiddleware(a, remaining) ==
    IF a.err # None
    THEN IF ContainsRateLimitExceeded(a.err)
         THEN MWResult(429, FALSE, remaining, a)
         ELSE MWResult(0, TRUE, 0, a)
    ELSE IF ~a.allowed
    THEN MWResult(429, FALSE, remaining, a)
    ELSE MWResult(0, TRUE, remaining, a)

(***************************************************************************)
(* authService: the operations that make a single pass over the stores.    *)
(* Each returns the error or the token pair together with the tables as    *)
(* the call leaves them and the number of uuid.New() values it consumed.   *)
(* F is the set of the store calls that fail in this invocation.           *)
(***************************************************************************)
Failed(err, utbl, ttbl) ==
    [err |-> err, access |-> None, refresh |-> None, user |-> None,
     users |-> utbl, refresh_tokens |-> ttbl, uuids |-> 0]

\* an issuance that discards the error of tokenRepo.Create
generateAuthResponseWithRefreshToken_ignoreCreate(user, utbl, ttbl, t, id, fail) ==
    LET create == TokenCreate(ttbl, utbl, [id |-> id, user_id |-> user.id,
                                           token_hash |-> hashToken(GenerateRefreshToken(user.id, t, id)),
                                           expires_at |-> t + refreshTokenExpiry], fail)
    IN [err |-> None,
        access |-> GenerateAccessToken(user.id, user.email, t),
        refresh |-> GenerateRefreshToken(user.id, t, id),
        user |-> [id |-> user.id, email |-> user.email],
        users |-> utbl, refresh_tokens |-> create.tbl, uuids |-> 1]

\* auth_response.go lines 20-61
generateAuthResponseWithRefreshToken(user, utbl, ttbl, t, id, fail) ==
    LET accessToken == GenerateAccessToken(user.id, user.email, t)
        refreshToken == GenerateRefreshToken(user.id, t, id)
        tokenHash == hashToken(refreshToken)
        refreshTokenEntity == [id |-> id, user_id |-> user.id, token_hash |-> tokenHash,
                               expires_at |-> t + refreshTokenExpiry]
        create == TokenCreate(ttbl, utbl, refreshTokenEntity, fail)
    IN IF create.err # None
       THEN [Failed(Wrap("failed to save refresh token", create.err), utbl, ttbl)
                EXCEPT !.uuids = 1]
       ELSE [err |-> None, access |-> accessToken, refresh |-> refreshToken,
             user |-> [id |-> user.id, email |-> user.email],
             users |-> utbl, refresh_tokens |-> create.tbl, uuids |-> 1]

Register(email, password, utbl, ttbl, t, id, F) ==
    IF ~ValidateEmail(email) THEN Failed(NewErr("invalid email format"), utbl, ttbl)
    ELSE IF ~ValidatePassword(password)
    THEN Failed(NewErr("password must be at least 8 characters long and contain uppercase, lowercase, and number"),
                utbl, ttbl)
    ELSE LET get == UserGetByEmail(utbl, email, "GetByEmail" \in F)
         IN IF get.err = None
            THEN Failed(NewErr("user with email <email> already exists"), utbl, ttbl)
            ELSE IF ~EqualsSentinel(get.err, "ErrNotFound")
            THEN Failed(Wrap("failed to check user existence", get.err), utbl, ttbl)
            ELSE IF "HashPassword" \in F
            THEN Failed(Wrap("failed to hash password", NewErr("bcrypt error")), utbl, ttbl)
            ELSE LET user == [id |-> id, email |-> SanitizeEmail(email),
                              password_hash |-> HashPassword(password),
                              is_active |-> TRUE, last_login_at |-> NoTime]
                     create == UserCreate(utbl, user, "Create" \in F)
                 IN IF create.err # None
                    THEN [Failed(Wrap("failed to create user", create.err), utbl, ttbl)
                             EXCEPT !.uuids = 1]
                    ELSE LET gen == generateAuthResponseWithRefreshToken(
                                        user, create.tbl, ttbl, t, id + 1, "TokenCreate" \in F)
                         IN [gen EXCEPT !.uuids = 2]

\* authService.Login as one pass over the stores, no other request between
\* its store calls
Login(email, password, utbl, ttbl, t, id, F) ==
    LET get == UserGetByEmail(utbl, SanitizeEmail(email), "GetByEmail" \in F)
    IN IF get.err # None
       THEN IF EqualsSentinel(get.err, "ErrNotFound")
            THEN Failed(NewErr("invalid email or password"), utbl, ttbl)
            ELSE Failed(Wrap("failed to get user", get.err), utbl, ttbl)
       ELSE IF ~get.user.is_active
       THEN Failed(NewErr("user account is inactive"), utbl, ttbl)
       ELSE IF ~CheckPasswordHash(password, get.user.password_hash)
       THEN Failed(NewErr("invalid email or password"), utbl, ttbl)
       ELSE LET upd == UserUpdateLastLogin(utbl, get.user.id, t, "UpdateLastLogin" \in F)
            IN generateAuthResponseWithRefreshToken(
                   get.user, upd.tbl, ttbl, t, id, "TokenCreate" \in F)

\* a validation that asks the codec before the blacklist
ValidateToken_codecFirst(tok, bl, t, fail) ==
    LET v == JWTValidateToken(tok, t)
        b == IsTokenBlacklisted(bl, tok, t, fail)
    IN IF v.err # None THEN [err |-> Wrap("invalid token", v.err), claims |-> None]
       ELSE IF b.err # None
       THEN [err |-> Wrap("failed to check token blacklist", b.err), claims |-> None]
       ELSE IF b.blacklisted THEN [err |-> NewErr("token is blacklisted"), claims |-> None]
       ELSE [err |-> None, claims |-> v.claims]

\* authService.ValidateToken: returns [err, claims]
ValidateToken(tok, bl, t, fail) ==
    LET b == IsTokenBlacklisted(bl, tok, t, fail)
    IN IF b.err # None
       THEN [err |-> Wrap("failed to check token blacklist", b.err), claims |-> None]
       ELSE IF b.blacklisted THEN [err |-> NewErr("token is blacklisted"), claims |-> None]
       ELSE LET v == JWTValidateToken(tok, t)
            IN IF v.err # None THEN [err |-> Wrap("invalid token", v.err), claims |-> None]
               ELSE [err |-> None, claims |-> v.claims]

(***************************************************************************)
(* handler: the response written for the outcome of a service call.        *)
(***************************************************************************)
Response(status, error, message) == [status |-> status, error |-> error, message |-> message]

\* the error of ShouldBindJSON and the response both handlers write for it
BindErr == NewErr("Field validation for <field> failed on the <tag> tag")
BindHandler == Response(400, "Validation failed", BindErr.msg)

RegisterHandler(err) ==
    IF err = None THEN Response(201, "", << >>)
    ELSE IF ContainsAlreadyExists(err) THEN Response(409, "Conflict", err.msg)
    ELSE Response(400, "Bad request", err.msg)

LoginHandler(err) ==
    IF err = None THEN Response(200, "", << >>)
    ELSE Response(401, "Unauthorized", err.msg)

\* the cookie refresh_token of a request that carries none, and the error
\* c.Cookie returns for it
NoCookie == [cookie |-> FALSE]
ErrNoCookie == NewErr("http: named cookie not present")

\* AuthHandler.Refresh: the request carries no cookie, or err is what
\* RefreshToken returned for the token in the cookie
RefreshHandler(cookie, err) ==
    IF cookie = NoCookie
    THEN Response(400, "Bad request", << "Refresh token not found in cookie" >>)
    ELSE IF err = None THEN Response(200, "", << >>)
    ELSE Response(401, "Unauthorized", err.msg)

LogoutHandler(err) ==
    IF err = None THEN Response(200, "", << >>)
    ELSE Response(500, "Internal server error", err.msg)

\* the header Authorization of a request, as strings.Split(authHeader, " ")
\* cuts it; the empty sequence for a request without the header
NoHeader == << >>
Bearer(tok) == << "Bearer", tok >>
\* len(parts) != 2 || parts[0] != "Bearer"
BadAuthFormat(header) == Len(header) # 2 \/ header[1] # "Bearer"

\* AuthMiddleware: the response to a request with this header, err what
\* ValidateToken returned when the middleware called it (200 stands for
\* c.Next())
AuthMiddleware(header, err) ==
    IF header = NoHeader
    THEN Response(401, "Unauthorized", << "Authorization header is required" >>)
    ELSE IF BadAuthFormat(header)
    THEN Response(401, "Unauthorized", << "Invalid authorization header format" >>)
    ELSE IF err # None THEN Response(401, "Unauthorized", << "Invalid or expired token" >>)
    ELSE Response(200, "", << >>)

(***************************************************************************)
(* config.  A value of JWT_SECRET is the number of its characters that     *)
(* UTF-8 encodes in one byte and the number of those it encodes in two     *)
(* (such as "é"); a value of another variable is a sequence of characters. *)
(***************************************************************************)
\* a variable of the environment: not set, or set to a value
Unset == [set |-> FALSE]
Set(v) == [set |-> TRUE, v |-> v]

Secret(ascii, wide) == [ascii |-> ascii, wide |-> wide]
\* len(s): the number of bytes of the string
ByteLen(s) == s.ascii + 2 * s.wide
\* the number of characters of the string
CharLen(s) == s.ascii + s.wide

IsDigits(v) == \A i \in DOMAIN v : v[i] \in DigitChars

DigitIndex(c) == CHOOSE i \in DOMAIN DigitSeq : DigitSeq[i] = c

\* 1<<63
Int64Limit == << "9","2","2","3","3","7","2","0","3","6","8","5","4","7","7","5","8","0","8" >>

\* the length of the longest prefix of s whose characters are all in C
PrefixLen(s, C) ==
    IF \A i \in DOMAIN s : s[i] \in C THEN Len(s)
    ELSE (CHOOSE i \in DOMAIN s : s[i] \notin C /\ \A j \in 1..(i - 1) : s[j] \in C) - 1

Drop(s, n) == SubSeq(s, n + 1, Len(s))

(***************************************************************************)
(* Numbers wider than the integers of the model checker: a uint64 value    *)
(* and the mantissa of a float64 value is the sequence of its digits to    *)
(* the base 1000, lowest digit first, without leading zeros; zero is the   *)
(* empty sequence.  The operations are written without recursion over the  *)
(* digits (carries by look-ahead, sums by the cardinality of a bag).       *)
(***************************************************************************)
BigBase == 1000

BigDigit(a, i) == IF i \in DOMAIN a THEN a[i] ELSE 0
BigMax(S) == CHOOSE i \in S : \A j \in S : j <= i
BigNorm(a) ==
    IF \A i \in DOMAIN a : a[i] = 0 THEN << >>
    ELSE SubSeq(a, 1, BigMax({ i \in DOMAIN a : a[i] # 0 }))

\* a number of the model checker
BigOfInt(n) ==
    BigNorm(<< n % BigBase, (n \div BigBase) % BigBase,
               (n \div (BigBase * BigBase)) % BigBase, n \div (BigBase * BigBase * BigBase) >>)

\* the decimal digit of the text s at the place 10^k
DigitAt(s, k) == IF k < Len(s) THEN DigitIndex(s[Len(s) - k]) - 1 ELSE 0
\* the number written by a sequence of digit characters
BigOfDigits(s) ==
    BigNorm([i \in 1..((Len(s) + 2) \div 3) |->
                 DigitAt(s, 3 * i - 3) + 10 * DigitAt(s, 3 * i - 2) + 100 * DigitAt(s, 3 * i - 1)])

\* 10^n
BigTenTo(n) ==
    [i \in 1..((n \div 3) + 1) |->
         IF i <= n \div 3 THEN 0 ELSE IF n % 3 = 0 THEN 1 ELSE IF n % 3 = 1 THEN 10 ELSE 100]

\* the carry into the digit i of a + b
BigCarry(a, b, i) ==
    \E j \in 1..(i - 1) :
        /\ BigDigit(a, j) + BigDigit(b, j) >= BigBase
        /\ \A k \in (j + 1)..(i - 1) : BigDigit(a, k) + BigDigit(b, k) = BigBase - 1

BigAdd(a, b) ==
    BigNorm([i \in 1..((IF Len(a) > Len(b) THEN Len(a) ELSE Len(b)) + 1) |->
                 (BigDigit(a, i) + BigDigit(b, i) + (IF BigCarry(a, b, i) THEN 1 ELSE 0))
                     % BigBase])

\* -1, 0, 1 as a < b, a = b, a > b
BigCmp(a, b) ==
    IF Len(a) < Len(b) THEN -1
    ELSE IF Len(a) > Len(b) THEN 1
    ELSE IF a = b THEN 0
    ELSE IF a[BigMax({ i \in DOMAIN a : a[i] # b[i] })] < b[BigMax({ i \in DOMAIN a : a[i] # b[i] })]
    THEN -1
    ELSE 1

\* the borrow from the digit i of a - b
BigBorrow(a, b, i) ==
    \E j \in 1..(i - 1) :
        /\ a[j] < BigDigit(b, j)
        /\ \A k \in (j + 1)..(i - 1) : a[k] = BigDigit(b, k)

\* a - b for a >= b
BigSub(a, b) ==
    BigNorm([i \in DOMAIN a |->
                 (a[i] - BigDigit(b, i) - (IF BigBorrow(a, b, i) THEN 1 ELSE 0) + BigBase)
                     % BigBase])

\* the sum of the products of the digits of a and b at the place i
BigColumn(a, b, i) ==
    BagCardinality([j \in { k \in DOMAIN a : (i + 1 - k) \in DOMAIN b /\ a[k] * b[i + 1 - k] > 0 }
                        |-> a[j] * b[i + 1 - j]])

\* the number whose places hold the sums c, each below BigBase^3
BigOfColumns(c) ==
    BigAdd(BigAdd([i \in DOMAIN c |-> c[i] % BigBase],
                  << 0 >> \o [i \in DOMAIN c |-> (c[i] \div BigBase) % BigBase]),
           << 0, 0 >> \o [i \in DOMAIN c |-> c[i] \div (BigBase * BigBase)])

BigMul(a, b) ==
    IF a = << >> \/ b = << >> THEN << >>
    ELSE BigOfColumns([i \in 1..(Len(a) + Len(b) - 1) |-> BigColumn(a, b, i)])

\* the next digit of the quotient, for r < b * BigBase: the quotient of the
\* three highest places of r by the two highest of b, or one less
BigQuotient(r, b, n) == IF BigCmp(BigMul(b, BigOfInt(n)), r) <= 0 THEN n ELSE n - 1
BigQuotDigit(r, b) ==
    BigQuotient(r, b,
                (BigDigit(r, Len(b) + 1) * BigBase * BigBase + BigDigit(r, Len(b)) * BigBase
                     + BigDigit(r, Len(b) - 1))
                  \div (b[Len(b)] * BigBase + BigDigit(b, Len(b) - 1)))

\* long division of the digits a[1..i], q the quotient and r the remainder
\* of the digits above them
RECURSIVE BigDivDigits(_, _, _, _, _)
BigDivDigits(a, b, i, q, r) ==
    IF i = 0 THEN [q |-> BigNorm(q), r |-> r]
    ELSE IF BigCmp(BigNorm(<< a[i] >> \o r), b) < 0
    THEN BigDivDigits(a, b, i - 1, << 0 >> \o q, BigNorm(<< a[i] >> \o r))
    ELSE BigDivDigits(a, b, i - 1, << BigQuotDigit(BigNorm(<< a[i] >> \o r), b) >> \o q,
                      BigSub(BigNorm(<< a[i] >> \o r),
                             BigMul(b, BigOfInt(BigQuotDigit(BigNorm(<< a[i] >> \o r), b)))))

\* quotient and remainder of a / b, b > 0
BigDivMod(a, b) ==
    IF BigCmp(a, b) < 0 THEN [q |-> << >>, r |-> a]
    ELSE BigDivDigits(a, b, Len(a) - Len(b) + 1, << >>,
                      BigNorm(SubSeq(a, Len(a) - Len(b) + 2, Len(a))))

\* 2^n for n < 128, by the binary digits of n
BigTwoBit(n, w, p) == IF (n \div w) % 2 = 1 THEN p ELSE << 1 >>
Two32 == << 296, 967, 294, 4 >>
Two64 == BigMul(Two32, Two32)
BigTwoTo(n) ==
    BigMul(BigMul(BigOfInt(2 ^ (n % 16)), BigTwoBit(n, 16, BigOfInt(65536))),
           BigMul(BigTwoBit(n, 32, Two32), BigTwoBit(n, 64, Two64)))

\* the number of binary digits of a > 0
BigBitLen(a) ==
    CHOOSE k \in (9 * Len(a) - 8)..(10 * Len(a)) :
        BigCmp(BigTwoTo(k - 1), a) <= 0 /\ BigCmp(a, BigTwoTo(k)) < 0

\* 1<<63
Two63 == BigTwoTo(63)
\* uint64 addition
Uint64Wrap(x) == IF BigCmp(x, Two64) >= 0 THEN BigSub(x, Two64) ELSE x
Uint64Add(a, b) == Uint64Wrap(BigAdd(a, b))

(***************************************************************************)
(* float64: the value m * 2^e with 2^52 <= m < 2^53, or zero (m empty).    *)
(* The exponent is not bounded.                                            *)
(***************************************************************************)
Two52 == BigTwoTo(52)
Two53 == BigTwoTo(53)

\* the quotient qr.q of n / d with remainder qr.r, rounded to the nearest
\* mantissa, ties to the even one
FloatRound(qr, d, e) ==
    IF qr.r = << >> THEN [m |-> qr.q, e |-> e]
    ELSE IF BigCmp(BigAdd(qr.r, qr.r), d) > 0 \/ (BigAdd(qr.r, qr.r) = d /\ qr.q[1] % 2 = 1)
    THEN IF BigAdd(qr.q, << 1 >>) = Two53 THEN [m |-> Two52, e |-> e + 1]
         ELSE [m |-> BigAdd(qr.q, << 1 >>), e |-> e]
    ELSE [m |-> qr.q, e |-> e]

\* num * 2^s / den as a quotient of numbers
FloatNum(num, s) == IF s > 0 THEN BigMul(num, BigTwoTo(s)) ELSE num
FloatDen(den, s) == IF s < 0 THEN BigMul(den, BigTwoTo(0 - s)) ELSE den
\* for 2^52 <= num * 2^s / den < 2^53
FloatOfShifted(num, den, s) ==
    FloatRound(BigDivMod(FloatNum(num, s), FloatDen(den, s)), FloatDen(den, s), 0 - s)
\* for 2^52 <= num * 2^s / den < 2^54
FloatOfAligned(num, den, s) ==
    IF BigCmp(FloatNum(num, s), BigMul(FloatDen(den, s), Two53)) >= 0
    THEN FloatOfShifted(num, den, s - 1)
    ELSE FloatOfShifted(num, den, s)

\* the float64 nearest to num / den
FloatOfRatio(num, den) ==
    IF num = << >> THEN [m |-> << >>, e |-> 0]
    ELSE FloatOfAligned(num, den, 53 - (BigBitLen(num) - BigBitLen(den)))

\* float64(n): exact for a number of at most 53 binary digits
FloatOfBits(n, bits) ==
    IF bits <= 53 THEN [m |-> BigMul(n, BigTwoTo(53 - bits)), e |-> bits - 53]
    ELSE FloatRound(BigDivMod(n, BigTwoTo(bits - 53)), BigTwoTo(bits - 53), bits - 53)
FloatOfBig(n) == IF n = << >> THEN [m |-> << >>, e |-> 0] ELSE FloatOfBits(n, BigBitLen(n))
\* x * y and x / y
FloatShift(r, e) == IF r.m = << >> THEN r ELSE [m |-> r.m, e |-> r.e + e]
FloatMul(x, y) == FloatShift(FloatOfBig(BigMul(x.m, y.m)), x.e + y.e)
FloatDiv(x, y) == FloatShift(FloatOfRatio(x.m, y.m), x.e - y.e)
\* uint64(x) for 0 <= x < 2^64
FloatToUint64(x) ==
    IF x.m = << >> \/ x.e < -52 THEN << >>
    ELSE IF x.e >= 0 THEN BigMul(x.m, BigTwoTo(x.e))
    ELSE BigDivMod(x.m, BigTwoTo(0 - x.e)).q

\* x after k times  x *= 10
RECURSIVE FloatTimesTen(_, _)
FloatTimesTen(x, k) ==
    IF k = 0 \/ x.m = << >> THEN x ELSE FloatTimesTen(FloatMul(x, FloatOfBig(<< 10 >>)), k - 1)
\* scale after n times  scale *= 10  from 1: the products are exact up to
\* 10^22 = 5^22 * 2^22, whose odd factor is below 2^53
FloatScaleOfTen(n) ==
    IF n <= 22 THEN FloatOfBig(BigTenTo(n))
    ELSE FloatTimesTen(FloatOfBig(BigTenTo(22)), n - 22)

(***************************************************************************)
(* strconv.Atoi and time.ParseDuration.                                   *)
(***************************************************************************)
\* strconv.Atoi: "" when it returns no error, else the text of its error.
\* The characters after the sign are read from the left: digits that
\* overflow 64 bits end the scan with the range error, a character that is
\* no digit ends it with the syntax error, whichever comes first; a number
\* of digits only is then held against the range of int.
Atoi(v) ==
    LET signed == v # << >> /\ Head(v) \in {"+", "-"}
        d == IF signed THEN Tail(v) ELSE v
        n == PrefixLen(d, DigitChars)
    IN IF BigCmp(BigOfDigits(SubSeq(d, 1, n)), Two64) >= 0
       THEN "strconv.Atoi: parsing <s>: value out of range"
       ELSE IF d = << >> \/ n < Len(d) THEN "strconv.Atoi: parsing <s>: invalid syntax"
       ELSE IF BigCmp(BigOfDigits(d), Two63) > (IF v[1] = "-" THEN 0 ELSE -1)
       THEN "strconv.Atoi: parsing <s>: value out of range"
       ELSE ""

\* unitMap: nanoseconds of each unit
unitMap ==
    { [unit |-> << "n", "s" >>, ns |-> << 1 >>],
      [unit |-> << "u", "s" >>, ns |-> << 0, 1 >>],
      [unit |-> << "µ", "s" >>, ns |-> << 0, 1 >>],
      [unit |-> << "μ", "s" >>, ns |-> << 0, 1 >>],
      [unit |-> << "m", "s" >>, ns |-> << 0, 0, 1 >>],
      [unit |-> << "s" >>, ns |-> << 0, 0, 0, 1 >>],
      [unit |-> << "m" >>, ns |-> << 0, 0, 0, 60 >>],
      [unit |-> << "h" >>, ns |-> << 0, 0, 0, 600, 3 >>] }

\* leadingFraction: the number of digits it keeps, the longest prefix whose
\* value is at most 1<<63 (x is their value, scale is 10 to their number)
leadingFraction(digits) ==
    BigMax({ n \in 0..Len(digits) : BigCmp(BigOfDigits(SubSeq(digits, 1, n)), Two63) <= 0 })

\* uint64(float64(f) * (float64(unit) / scale)), f the first n digits after
\* the point; from n = 32 on the product is below 1: f <= 1<<63, unit is at
\* most an hour and scale at least 10^32
FractionOfUnit(f, n, unit) ==
    IF f = << >> \/ n > 31 THEN << >>
    ELSE FloatToUint64(FloatMul(FloatOfBig(f),
                                FloatDiv(FloatOfBig(unit), FloatScaleOfTen(n))))

\* the term of the digits before the point, those after it and the
\* nanoseconds of the unit: if v > 1<<63/unit; v *= unit; v += the fraction;
\* if v > 1<<63
TermValue(whole, digits, unit) ==
    Uint64Add(BigMul(whole, unit),
              FractionOfUnit(BigOfDigits(SubSeq(digits, 1, leadingFraction(digits))),
                             leadingFraction(digits), unit))
TermOfUnit(whole, v, rest) ==
    IF BigCmp(whole, Two63) > 0 \/ BigCmp(v, Two63) > 0
    THEN [err |-> "time: invalid duration <s>"]
    ELSE [err |-> "", v |-> v, rest |-> rest]

\* one pass of the loop of time.ParseDuration: the term at the head of s,
\* [0-9]*(\.[0-9]*)?[a-z]+ : the text of the error, or "", the value of the
\* term and the text after it
ParseTerm(s) ==
    LET pl == PrefixLen(s, DigitChars)
        s1 == Drop(s, pl)
        point == s1 # << >> /\ Head(s1) = "."
        fl == IF point THEN PrefixLen(Tail(s1), DigitChars) ELSE 0
        s2 == IF point THEN Drop(s1, 1 + fl) ELSE s1
        ul == PrefixLen(s2, { s2[i] : i \in DOMAIN s2 } \ (DigitChars \cup {"."}))
        units == { u \in unitMap : u.unit = SubSeq(s2, 1, ul) }
    IN IF Head(s) \notin DigitChars \cup {"."} THEN [err |-> "time: invalid duration <s>"]
       ELSE IF BigCmp(BigOfDigits(SubSeq(s, 1, pl)), Two63) > 0
       THEN [err |-> "time: invalid duration <s>"]
       ELSE IF pl = 0 /\ fl = 0 THEN [err |-> "time: invalid duration <s>"]
       ELSE IF ul = 0 THEN [err |-> "time: missing unit in duration <s>"]
       ELSE IF units = {} THEN [err |-> "time: unknown unit <u> in duration <s>"]
       ELSE TermOfUnit(BigMul(BigOfDigits(SubSeq(s, 1, pl)), (CHOOSE u \in units : TRUE).ns),
                       TermValue(BigOfDigits(SubSeq(s, 1, pl)), SubSeq(s1, 2, 1 + fl),
                                 (CHOOSE u \in units : TRUE).ns),
                       Drop(s2, ul))

\* the loop of time.ParseDuration over the terms of s, d the sum so far:
\* d += v; if d > 1<<63
RECURSIVE ParseTerms(_, _)
ParseSum(t, d) ==
    IF t.err # "" THEN [err |-> t.err]
    ELSE IF BigCmp(Uint64Add(d, t.v), Two63) > 0 THEN [err |-> "time: invalid duration <s>"]
    ELSE ParseTerms(t.rest, Uint64Add(d, t.v))
ParseTerms(s, d) == IF s = << >> THEN [err |-> "", d |-> d] ELSE ParseSum(ParseTerm(s), d)

\* after the loop: if neg, -Duration(d); else if d > 1<<63 - 1
ParseResult(r, neg) ==
    IF r.err # "" THEN r.err
    ELSE IF ~neg /\ BigCmp(r.d, Two63) >= 0 THEN "time: invalid duration <s>"
    ELSE ""

\* time.ParseDuration: the text of its error, "" when it returns none
ParseDuration(v) ==
    LET signed == v # << >> /\ Head(v) \in {"+", "-"}
        s == IF signed THEN Tail(v) ELSE v
    IN IF s = << "0" >> THEN ""
       ELSE IF s = << >> THEN "time: invalid duration <s>"
       ELSE ParseResult(ParseTerms(s, << >>), v[1] = "-")

\* fmt.Errorf("<text>: %w", err) of the error a library function returned
\* with the text msg, nil when it returned none
WrapText(text, msg) == IF msg = "" THEN None ELSE Wrap(text, NewErr(msg))

\* duration.go lines 17-40, Duration.EnvDecode: the error it returns; "" is
\* accepted, "<n>d" are days, anything else goes to time.ParseDuration
EnvDecode(v) ==
    IF v = << >> THEN None
    ELSE IF v[Len(v)] = "d" THEN WrapText("invalid days value", Atoi(SubSeq(v, 1, Len(v) - 1)))
    ELSE WrapText("invalid duration", ParseDuration(v))

\* the zero Duration, which EnvDecode leaves for the empty string
ZeroDuration == << "0", "s" >>
\* the default of the tag of JWT_ACCESS_TOKEN_EXPIRY
DefaultAccessTokenExpiry == << "1", "5", "m" >>

\* duration.go lines 129-142: returns [err, config]; a Duration is kept as
\* the text it was decoded from.  envconfig applies the default of a tag to
\* a variable that is not set, and decodes the value of one that is set;
\* it puts the name of the field before the error of a field.
\* LoadDecoded: Load once JWT_SECRET is there, err the error of decoding
\* JWT_ACCESS_TOKEN_EXPIRY
LoadDecoded(env, err) ==
    IF err # None
    THEN [err |-> Wrap("failed to load configuration", Wrap("JWT", err)), config |-> None]
    ELSE IF ByteLen(env.JWT_SECRET.v) < MinSecretLen
    THEN [err |-> NewErr("JWT_SECRET must be at least 32 characters long"), config |-> None]
    ELSE [err |-> None,
          config |-> [JWT |-> [Secret |-> env.JWT_SECRET.v,
                               AccessTokenExpiry |->
                                   IF ~env.JWT_ACCESS_TOKEN_EXPIRY.set
                                   THEN DefaultAccessTokenExpiry
                                   ELSE IF env.JWT_ACCESS_TOKEN_EXPIRY.v = << >>
                                   THEN ZeroDuration
                                   ELSE env.JWT_ACCESS_TOKEN_EXPIRY.v]]]
Load(env) ==
    IF ~env.JWT_SECRET.set
    THEN [err |-> Wrap("failed to load configuration",
                       Wrap("JWT", Wrap("Secret", Wrap("missing required value",
                                                       NewErr("JWT_SECRET"))))),
          config |-> None]
    ELSE LoadDecoded(env, IF env.JWT_ACCESS_TOKEN_EXPIRY.set
                          THEN EnvDecode(env.JWT_ACCESS_TOKEN_EXPIRY.v)
                          ELSE None)

(***************************************************************************)
(* State.                                                                  *)
(***************************************************************************)
VARIABLES
    now,             \* the clock, in seconds
    users,           \* table users
    refresh_tokens,  \* table refresh_tokens
    blacklist,       \* Redis keys blacklist:token:<token>
    uuid,            \* number of values uuid.New() has produced
    pc,              \* per worker: the store call its request is about to make
    call,            \* per worker: the request it is serving
    loc,             \* per worker: local variables of the request
    last,            \* the request that returned last and its result
    requests,        \* number of requests that got past their first check
    issued,          \* every token string ever returned to a caller
    rotations,       \* every RefreshToken call that returned a token pair
    logouts,         \* every Logout call that returned
    sub,             \* the clock: ticks elapsed within the current second
    fine,            \* the clock: nanoseconds elapsed within the current tick
    calls,           \* number of RateLimiter calls made
    zset,            \* Redis sorted sets ratelimit:<key>
    zttl,            \* the instant (a tick) at which Redis expires each of them
    rl,              \* per worker: the Allow call it is serving
    rl_last,         \* the RateLimiter call that returned last and its result
    admitted,        \* per key, the clock readings of the admitted requests
    sd,              \* App.Shutdown: its goroutines, channels and result
    hc,              \* HealthChecker: the check in progress and its response
    cfg,             \* config.Load: the environment of the last call and its result
    run              \* App.Run: its goroutine, its channel, its select and its result

\* the state of the rate limiter
rlvars == << sub, fine, calls, zset, zttl, rl, rl_last, admitted >>

\* the state of the application around the engine
appvars == << sd, hc, cfg, run >>

vars == << now, users, refresh_tokens, blacklist, uuid, pc, call, loc, last,
           requests, issued, rotations, logouts, rlvars, appvars >>

str_a == << "a", "@", "x", ".", "c", "o" >>
str_A == << "A", "@", "x", ".", "c", "o" >>
str_sp_a == << " ", "a", "@", "x", ".", "c", "o" >>
str_b == << "b", "@", "x", ".", "c", "o" >>
str_c == << "c", "@", "x", ".", "c", "o" >>
str_C == << "C", "@", "x", ".", "c", "o" >>
str_noTld == << "c", "@", "x" >>
\* "c"@x.co, a quoted local part, and c@x_y.co, an underscore in the domain
str_quoted == << "\"", "c", "\"", "@", "x", ".", "c", "o" >>
str_uscore == << "c", "@", "x", "_", "y", ".", "c", "o" >>
\* a@x.co after a tab and before a space and a tab
str_tab_a == << "\t", "a", "@", "x", ".", "c", "o", " ", "\t" >>
pw_good == << "P", "a", "s", "s", "w", "0", "r", "d" >>
pw_other == << "P", "a", "s", "s", "w", "0", "r", "D" >>
pw_weak == << "p", "a", "s", "s", "w", "o", "r", "d" >>
\* seven characters in eleven bytes, and seven characters in seven bytes
pw_wide == << "A", "a", "1", "é", "é", "é", "é" >>
pw_short == << "A", "a", "1", "b", "b", "b", "b" >>

\* e-mail addresses and passwords the requests carry
EmailInputs == { str_a, str_A, str_sp_a, str_b, str_c, str_noTld }

\* rows of the users table before the first request: an active account and
\* a deactivated one
ActiveUser == [id |-> 101, email |-> str_a, password_hash |-> HashPassword(pw_good),
               is_active |-> TRUE, last_login_at |-> NoTime]
InactiveUser == [id |-> 102, email |-> str_b, password_hash |-> HashPassword(pw_good),
                 is_active |-> FALSE, last_login_at |-> NoTime]
UserIds == { ActiveUser.id, InactiveUser.id }

\* the empty string passed as a token
EmptyToken == [alg |-> "", key |-> "", claims |-> [empty |-> TRUE]]
\* a token re-signed with a key other than the secret
Forged(tok) == [tok EXCEPT !.key = "wrong"]
\* token strings a caller can present
TokenInputs == issued \cup { Forged(tok) : tok \in issued }

NoCall == [op |-> "none"]
NoRes == [done |-> FALSE, err |-> None, access |-> None, refresh |-> None,
          http |-> Response(0, "", << >>)]
Returned(err, access, refresh, http) ==
    [done |-> TRUE, err |-> err, access |-> access, refresh |-> refresh, http |-> http]

ObsInit == [verified |-> FALSE, record |-> FALSE, fresh |-> FALSE,
            notDenied |-> FALSE, active |-> FALSE]
\* failed: the store calls of the consume steps that returned an error;
\* after: the rotations of the same token that had returned a pair when this
\* call started, each named by the jti of the refresh token it returned;
\* afterLogout: the Logout calls for the same token that had returned when
\* this call started
LocInit == [userID |-> 0, user |-> None,
            addTried |-> FALSE, delTried |-> FALSE, deleted |-> FALSE,
            failed |-> {}, obs |-> ObsInit, after |-> {}, afterLogout |-> {}]
Last(c, r) == [call |-> c, res |-> r]
\* what a call keeps of a Logout call that had returned when it started:
\* whether the record belonged to the caller, and the store calls that failed
Outcome(x) == [owned |-> x.owned, failed |-> x.failed]

\* the type claim of the token is "refresh"
IsRefreshTyped(tok) == HasClaim(tok, "type") /\ tok.claims.type = "refresh"

\* facts of the stores, stated on the state itself
RecordExists(tok) == \E r \in refresh_tokens : r.token_hash = hashToken(tok)
RecordFresh(tok) == \E r \in refresh_tokens : r.token_hash = hashToken(tok) /\ now <= r.expires_at
OnDenylist(tok) == \E e \in blacklist : e.token = tok /\ now < e.expire_at
UserActive(id) == \E u \in users : u.id = id /\ u.is_active
VerifiesAsRefresh(tok) ==
    /\ ParseOK(tok, now)
    /\ HasClaim(tok, "type") /\ tok.claims.type = "refresh"
    /\ HasClaim(tok, "user_id")
    /\ HasClaim(tok, "exp") /\ now <= tok.claims.exp

\* what is kept of the result of a request served on a worker: the outcome
\* and the status line of the response, without the message text
Brief(r) == [r EXCEPT !.err = IF r.err = None THEN None ELSE NewErr("error"),
                      !.access = None, !.refresh = None, !.http.message = << >>]

\* App.Shutdown: the two goroutines it starts, and the four that
\* infrastructure.Shutdown starts
Tasks == {"server", "infra"}
Closers == {"postgres", "redis", "logger", "meter"}

\* a goroutine is not started ("none"), running ("started"; for infra,
\* "joining" once it has started its own four) or has sent its result ("nil",
\* "err") to the channel of its parent; a channel is the sequence of the
\* results sent and not yet received
SDInit == [app |-> "running",
           task |-> [r \in Tasks \cup Closers |-> "none"],
           appErrs |-> << >>, appGot |-> << >>,
           infraErrs |-> << >>, infraGot |-> << >>,
           result |-> "none"]

\* the capacities of the channels: part_004 line 166 (errChan), line 206
\* (errs of App.Shutdown) and infrastructure.go line 91 (errs)
ErrChanCap == 1
AppErrsCap == 2
InfraErrsCap == 4

\* App.Run: where Run stands ("init", "select", "shutdown", "waiting" for
\* Shutdown to return, "returned"), whether its context is cancelled, what
\* became of ListenAndServe ("none", "listening", "failed" with an error
\* other than ErrServerClosed, "closed"), the channel errChan, the local
\* serverErr, the number of calls of Shutdown and the value Run returned
RunInit == [pc |-> "init", cancelled |-> FALSE, serve |-> "none",
            errChan |-> << >>, serverErr |-> "nil", shutdowns |-> 0,
            result |-> "none"]

\* HealthChecker: the stores it pings
Pinged == {"postgres", "redis"}

\* n: the requests to /health served so far; expired: the deadline of the
\* context of the check has passed; ping: the goroutine of each ping, as for
\* Shutdown; late: the ping returned after the deadline; status: the response
HCInit == [phase |-> "idle", n |-> 0, expired |-> FALSE,
           ping |-> [r \in Pinged |-> "none"], late |-> [r \in Pinged |-> FALSE],
           errs |-> << >>, got |-> << >>, status |-> 0]
NoLoad == [op |-> "none"]

\* client keys (IPBasedKey) of the rate-limited requests
Keys == {"ip1", "ip2"}

\* a worker that serves no rate-limited request
RLIdle == [pc |-> "idle"]
\* what is kept of a RateLimiter call: the operation, key and clock reading,
\* the Redis calls that failed, the sorted set when the call began and when
\* it returned, and the values returned
RLCall(op, key, t, id, F, before, r) ==
    [op |-> op, key |-> key, t |-> t, id |-> id, faults |-> F, before |-> before,
     after |-> r.set,
     allowed |-> r.allowed, remaining |-> r.remaining, err |-> r.err, count |-> r.count]
RLNoCall == [op |-> "none"]

\* the clock in ticks, and time.Now()
Clock == now * TicksPerSecond + sub
ReadClock == Instant(Clock, fine)

Init ==
    /\ now = 0
    /\ users = { ActiveUser, InactiveUser }
    /\ refresh_tokens = {}
    /\ blacklist = {}
    /\ uuid = 0
    /\ pc = [p \in Workers |-> "idle"]
    /\ call = [p \in Workers |-> NoCall]
    /\ loc = [p \in Workers |-> LocInit]
    /\ last = Last(NoCall, NoRes)
    /\ requests = 0
    /\ issued = {}
    /\ rotations = {}
    /\ logouts = {}
    /\ sub = 0
    /\ fine = 0
    /\ calls = 0
    /\ zset = [k \in Keys |-> {}]
    /\ zttl = [k \in Keys |-> NoTime]
    /\ rl = [p \in Workers |-> RLIdle]
    /\ rl_last = RLNoCall
    /\ admitted = [k \in Keys |-> {}]
    /\ sd = SDInit
    /\ hc = HCInit
    /\ cfg = NoLoad
    /\ run = RunInit

\* time passes, up to the instant `limit`; Redis drops the expired keys
TickTo(limit) ==
    /\ now < limit
    /\ now' = now + 1
    /\ blacklist' = RedisExpire(blacklist, now + 1)
    /\ UNCHANGED << users, refresh_tokens, uuid, pc, call, loc, last, requests, issued, rotations, logouts, rlvars, appvars >>

Tick == TickTo(MaxTime)

(***************************************************************************)
(* Register and ValidateToken: one action each (see the operators above):  *)
(* the handler binds the request, calls the service and writes the         *)
(* response for its outcome.                                               *)
(***************************************************************************)
DoRegister(email, password, F) ==
    /\ requests < MaxRequests
    /\ LET c == [op |-> "register", email |-> email, password |-> password,
                 clean |-> F = {},
                 taken |-> LET e == SanitizeEmail(email)
                           IN \E u \in users : u.email = e]
       IN IF ~BindRegisterOK(email, password)
          THEN /\ last' = Last(c, Returned(BindErr, None, None, BindHandler))
               /\ UNCHANGED << users, refresh_tokens, uuid, requests, issued >>
          ELSE \E r \in { Register(email, password, users, refresh_tokens, now, uuid + 1, F) } :
                  /\ users' = r.users
                  /\ refresh_tokens' = r.refresh_tokens
                  /\ uuid' = uuid + r.uuids
                  /\ requests' = IF r.uuids > 0 THEN requests + 1 ELSE requests
                  /\ last' = Last(c, Returned(r.err, r.access, r.refresh, RegisterHandler(r.err)))
                  /\ issued' = IF r.err = None THEN issued \cup {r.access, r.refresh} ELSE issued
    /\ UNCHANGED << now, blacklist, pc, call, loc, rotations, logouts, rlvars, appvars >>

(***************************************************************************)
(* AuthHandler.Login and authService.Login, one store call per step.       *)
(***************************************************************************)
\* the call of worker p returns r; F is the set of its store calls that failed
LGReturn(p, c, F, r) ==
    /\ pc' = [pc EXCEPT ![p] = "idle"]
    /\ call' = [call EXCEPT ![p] = NoCall]
    /\ loc' = [loc EXCEPT ![p] = LocInit]
    /\ last' = Last([op |-> "login", email |-> c.email, password |-> c.password,
                     clean |-> F = {}, faults |-> F], r)

\* a call that returns an error issued nothing
LGFail(p, F, err) ==
    /\ LGReturn(p, call[p], F, Returned(err, None, None, LoginHandler(err)))
    /\ requests' = requests - 1

\* auth_handler.go lines 81-89: the binding of the request
LG_Start(p, email, password) ==
    /\ pc[p] = "idle"
    /\ requests < MaxRequests
    /\ LET c == [op |-> "login", email |-> email, password |-> password]
       IN IF ~BindLoginOK(email, password)
          THEN /\ LGReturn(p, c, {}, Returned(BindErr, None, None, BindHandler))
               /\ UNCHANGED requests
          ELSE /\ pc' = [pc EXCEPT ![p] = "lg_lookup"]
               /\ call' = [call EXCEPT ![p] = c]
               /\ loc' = [loc EXCEPT ![p] = LocInit]
               /\ requests' = requests + 1
               /\ last' = last
    /\ UNCHANGED << now, users, refresh_tokens, blacklist, uuid, issued, rotations, logouts, rlvars, appvars >>

\* part_003 lines 91-108: GetByEmail, then the account and the password
LG_Lookup(p, fail) ==
    /\ pc[p] = "lg_lookup"
    /\ LET get == UserGetByEmail(users, SanitizeEmail(call[p].email), fail)
           F == IF fail THEN {"GetByEmail"} ELSE {}
       IN IF get.err # None
          THEN IF EqualsSentinel(get.err, "ErrNotFound")
               THEN LGFail(p, F, NewErr("invalid email or password"))
               ELSE LGFail(p, F, Wrap("failed to get user", get.err))
          ELSE IF ~get.user.is_active
          THEN LGFail(p, F, NewErr("user account is inactive"))
          ELSE IF ~CheckPasswordHash(call[p].password, get.user.password_hash)
          THEN LGFail(p, F, NewErr("invalid email or password"))
          ELSE /\ pc' = [pc EXCEPT ![p] = "lg_update"]
               /\ loc' = [loc EXCEPT ![p].user = get.user]
               /\ UNCHANGED << call, last, requests >>
    /\ UNCHANGED << now, users, refresh_tokens, blacklist, uuid, issued, rotations, logouts, rlvars, appvars >>

\* an update whose error ends the login
LG_Update_failOnUpdate(p, fail) ==
    /\ pc[p] = "lg_update"
    /\ LET upd == UserUpdateLastLogin(users, loc[p].user.id, now, fail)
       IN /\ users' = upd.tbl
          /\ IF upd.err # None
             THEN LGFail(p, {"UpdateLastLogin"}, Wrap("failed to update last login", upd.err))
             ELSE /\ pc' = [pc EXCEPT ![p] = "lg_generate"]
                  /\ UNCHANGED << call, loc, last, requests >>
    /\ UNCHANGED << now, refresh_tokens, blacklist, uuid, issued, rotations, logouts, rlvars, appvars >>

\* lines 110-115: UpdateLastLogin, whose error is dropped
LG_Update(p, fail) ==
    /\ pc[p] = "lg_update"
    /\ LET upd == UserUpdateLastLogin(users, loc[p].user.id, now, fail)
       IN /\ users' = upd.tbl
          /\ pc' = [pc EXCEPT ![p] = "lg_generate"]
          /\ loc' = [loc EXCEPT ![p].failed = IF upd.err # None THEN {"UpdateLastLogin"} ELSE {}]
          /\ UNCHANGED << call, last, requests >>
    /\ UNCHANGED << now, refresh_tokens, blacklist, uuid, issued, rotations, logouts, rlvars, appvars >>

\* line 118 and auth_handler.go lines 92-104: the pair is issued for the user
\* as GetByEmail returned it, and the handler answers
LG_Generate(p, fail) ==
    /\ pc[p] = "lg_generate"
    /\ LET gen == generateAuthResponseWithRefreshToken(
                      loc[p].user, users, refresh_tokens, now, uuid + 1, fail)
           F == loc[p].failed \cup (IF fail THEN {"TokenCreate"} ELSE {})
       IN /\ refresh_tokens' = gen.refresh_tokens
          /\ uuid' = uuid + gen.uuids
          /\ LGReturn(p, call[p], F,
                      Returned(gen.err, gen.access, gen.refresh, LoginHandler(gen.err)))
          /\ issued' = IF gen.err = None THEN issued \cup {gen.access, gen.refresh} ELSE issued
    /\ UNCHANGED << now, users, blacklist, requests, rotations, logouts, rlvars, appvars >>

\* headers a caller can send: none, a token after "Bearer", and the forms
\* the middleware does not take, another scheme and a third part
HeaderInputs ==
    {NoHeader} \cup { Bearer(tok) : tok \in TokenInputs }
       \cup { << "Token", tok >> : tok \in issued }
       \cup { << "Bearer", tok, tok >> : tok \in issued }

\* AuthMiddleware: a request without a header of the form "Bearer <token>"
\* is answered without a call of the service (it is kept in last as
\* "authenticate"); for any other the middleware calls
\* authService.ValidateToken, whose Redis call fails or not
DoValidateToken(header, fail) ==
    /\ header \in HeaderInputs
    /\ IF BadAuthFormat(header)
       THEN /\ ~fail
            /\ last' = Last([op |-> "authenticate"],
                            Returned(None, None, None, AuthMiddleware(header, None)))
       ELSE LET tok == header[2]
                r == ValidateToken(tok, blacklist, now, fail)
            IN last' = Last([op |-> "validate", token |-> tok, denied |-> OnDenylist(tok),
                             clean |-> ~fail],
                            Returned(r.err, None, None, AuthMiddleware(header, r.err)))
    /\ UNCHANGED << now, users, refresh_tokens, blacklist, uuid, pc, call, loc, requests, issued, rotations, logouts, rlvars, appvars >>

\* TokenBlacklistService.AddToken called by another client of the service for
\* a token it holds (revocation of a token by an administrator)
Revoke(tok, fail) ==
    /\ tok \in issued
    /\ requests < MaxRequests
    /\ LET add == AddToken(blacklist, tok, refreshTokenExpiry, now, fail)
       IN /\ blacklist' = add.bl
          /\ requests' = IF add.err = None THEN requests + 1 ELSE requests
    /\ UNCHANGED << now, users, refresh_tokens, uuid, pc, call, loc, last, issued, rotations, logouts, rlvars, appvars >>

(***************************************************************************)
(* Methods of the stores that no handler and no service method calls:      *)
(* TokenBlacklistService.RemoveToken, tokenRepository.Delete and           *)
(* DeleteExpired, userRepository.Update.  Each is a call made on its own;  *)
(* the call and the error it returned are kept in `last`.                  *)
(***************************************************************************)
StoreReturned(op, err) ==
    Last([op |-> op], Returned(err, None, None, Response(0, "", << >>)))

\* the rows userRepository.Update is called with: an account deactivated or
\* given the e-mail of another account, and a user that is not in the table
UpdateInputs ==
    { [ActiveUser EXCEPT !.is_active = FALSE],
      [InactiveUser EXCEPT !.is_active = TRUE],
      [InactiveUser EXCEPT !.email = str_a],
      [ActiveUser EXCEPT !.id = 103, !.email = str_c] }

DoRemoveToken(tok, fail) ==
    /\ LET del == RemoveToken(blacklist, tok, fail)
       IN /\ blacklist' = del.bl
          /\ last' = StoreReturned("RemoveToken", del.err)
    /\ UNCHANGED << now, users, refresh_tokens, uuid, pc, call, loc, requests, issued, rotations, logouts, rlvars, appvars >>

DoTokenDelete(id, fail) ==
    /\ LET del == TokenDelete(refresh_tokens, id, fail)
       IN /\ refresh_tokens' = del.tbl
          /\ last' = StoreReturned("Delete", del.err)
    /\ UNCHANGED << now, users, blacklist, uuid, pc, call, loc, requests, issued, rotations, logouts, rlvars, appvars >>

DoTokenDeleteExpired(fail) ==
    /\ LET del == TokenDeleteExpired(refresh_tokens, now, fail)
       IN /\ refresh_tokens' = del.tbl
          /\ last' = StoreReturned("DeleteExpired", del.err)
    /\ UNCHANGED << now, users, blacklist, uuid, pc, call, loc, requests, issued, rotations, logouts, rlvars, appvars >>

DoUserUpdate(user, fail) ==
    /\ LET upd == UserUpdate(users, user, fail)
       IN /\ users' = upd.tbl
          /\ last' = StoreReturned("Update", upd.err)
    /\ UNCHANGED << now, refresh_tokens, blacklist, uuid, pc, call, loc, requests, issued, rotations, logouts, rlvars, appvars >>

\* tests/acceptance/testdata/cleanup.sql, run on the database the service
\* reads: TRUNCATE refresh_tokens, TRUNCATE users CASCADE.  The repository
\* has no statement that deletes one user, and refresh_tokens.user_id
\* REFERENCES users(id) ON DELETE CASCADE, so this is the way a user is gone
\* under a call that has found the record of its token
DoCleanup ==
    /\ users # {}
    /\ users' = {}
    /\ refresh_tokens' = {}
    /\ UNCHANGED << now, blacklist, uuid, pc, call, loc, last, requests, issued, rotations, logouts, rlvars, appvars >>

(***************************************************************************)
(* authService.RefreshToken, one store call per step.                      *)
(***************************************************************************)
\* an order of the steps that leaves out the blacklist add and the delete
RTNext_noConsume(step) ==
    CASE step = "rt_start" -> "rt_lookup"
      [] step = "rt_lookup" -> "rt_blcheck"
      [] step = "rt_blcheck" -> "rt_getuser"
      [] step = "rt_getuser" -> "rt_generate"
      [] step = "rt_bladd" -> "rt_delete"
      [] step = "rt_delete" -> "rt_generate"

\* an order of the steps that deletes the record before the blacklist add
RTNext_deleteFirst(step) ==
    CASE step = "rt_start" -> "rt_lookup"
      [] step = "rt_lookup" -> "rt_blcheck"
      [] step = "rt_blcheck" -> "rt_getuser"
      [] step = "rt_getuser" -> "rt_delete"
      [] step = "rt_delete" -> "rt_bladd"
      [] step = "rt_bladd" -> "rt_generate"

\* the step that follows a step that passed
RTNext(step) ==
    CASE step = "rt_start" -> "rt_lookup"
      [] step = "rt_lookup" -> "rt_blcheck"
      [] step = "rt_blcheck" -> "rt_getuser"
      [] step = "rt_getuser" -> "rt_bladd"
      [] step = "rt_bladd" -> "rt_delete"
      [] step = "rt_delete" -> "rt_generate"

\* the first fragment of the message of an error ("" for nil): the check
\* of the call that refused it
Why(err) == IF err = None THEN "" ELSE err.msg[1]

\* the request of worker p returns r; the worker is free again
Return(p, r) ==
    /\ pc' = [pc EXCEPT ![p] = "idle"]
    /\ call' = [call EXCEPT ![p] = NoCall]
    /\ loc' = [loc EXCEPT ![p] = LocInit]
    /\ last' = Last([op |-> call[p].op, after |-> loc[p].after,
                     afterLogout |-> loc[p].afterLogout, why |-> Why(r.err)], Brief(r))

RTFail(p, err) == Return(p, Returned(err, None, None, RefreshHandler(call[p].token, err)))

RTPass(p, l, step) ==
    /\ pc' = [pc EXCEPT ![p] = RTNext(step)]
    /\ loc' = [loc EXCEPT ![p] = l]
    /\ UNCHANGED << call, last >>

\* AuthHandler.Refresh, lines 117-124: a request without the cookie is
\* answered before RefreshToken is called (the request is kept in last as
\* "refresh_no_cookie");
\* RefreshToken, lines 125-131: codec check and digest
RT_Start(p, tok) ==
    /\ pc[p] = "idle"
    /\ tok \in TokenInputs \cup {NoCookie}
    /\ requests < MaxRequests
    /\ LET v == ValidateRefreshToken(tok, now)
           c == [op |-> "refresh", token |-> tok]
           l == [LocInit EXCEPT !.userID = v.user_id,
                                !.obs.verified = VerifiesAsRefresh(tok),
                                !.after = { r.new.claims.jti : r \in { x \in rotations : x.token = tok } },
                                !.afterLogout = { Outcome(x) : x \in { y \in logouts : y.token = tok } }]
       IN IF tok = NoCookie
          THEN /\ last' = Last([op |-> "refresh_no_cookie", after |-> {}, afterLogout |-> {},
                                 why |-> ""],
                                Brief(Returned(ErrNoCookie, None, None,
                                               RefreshHandler(NoCookie, ErrNoCookie))))
               /\ UNCHANGED << pc, call, loc, requests >>
          ELSE IF v.err # None
          THEN /\ last' = Last([op |-> "refresh", after |-> l.after,
                                 afterLogout |-> l.afterLogout,
                                 why |-> "invalid refresh token"],
                                Brief(Returned(Wrap("invalid refresh token", v.err), None, None,
                                               RefreshHandler(tok, Wrap("invalid refresh token",
                                                                        v.err)))))
               /\ UNCHANGED << pc, call, loc, requests >>
          ELSE /\ pc' = [pc EXCEPT ![p] = RTNext("rt_start")]
               /\ call' = [call EXCEPT ![p] = c]
               /\ loc' = [loc EXCEPT ![p] = l]
               /\ requests' = requests + 1
               /\ last' = last
    /\ UNCHANGED << now, users, refresh_tokens, blacklist, uuid, issued, rotations, logouts, rlvars, appvars >>

\* lines 133-145: record lookup and expiry of the record
RT_Lookup(p, fail) ==
    /\ pc[p] = "rt_lookup"
    /\ LET tok == call[p].token
           get == TokenGetByTokenHash(refresh_tokens, hashToken(tok), fail)
           l == [loc[p] EXCEPT !.obs.record = RecordExists(tok),
                               !.obs.fresh = RecordFresh(tok)]
       IN IF get.err # None
          THEN IF EqualsSentinel(get.err, "ErrNotFound")
               THEN RTFail(p, NewErr("invalid refresh token"))
               ELSE RTFail(p, Wrap("failed to get token", get.err))
          ELSE IF now > get.row.expires_at
               THEN RTFail(p, NewErr("refresh token expired"))
               ELSE RTPass(p, l, "rt_lookup")
    /\ UNCHANGED << now, users, refresh_tokens, blacklist, uuid, requests, issued, rotations, logouts, rlvars, appvars >>

\* a check that deletes the record of a token it finds blacklisted
RT_BlacklistCheck_revokeOnReuse(p, fail) ==
    /\ pc[p] = "rt_blcheck"
    /\ LET tok == call[p].token
           chk == IsTokenBlacklisted(blacklist, tok, now, fail)
           l == [loc[p] EXCEPT !.obs.notDenied = ~OnDenylist(tok)]
       IN IF chk.err # None
          THEN /\ RTFail(p, Wrap("failed to check token blacklist", chk.err))
               /\ UNCHANGED refresh_tokens
          ELSE IF chk.blacklisted
               THEN /\ RTFail(p, NewErr("refresh token is blacklisted"))
                    /\ refresh_tokens' = TokenDeleteByTokenHash(refresh_tokens, hashToken(tok),
                                                                FALSE).tbl
               ELSE /\ RTPass(p, l, "rt_blcheck")
                    /\ UNCHANGED refresh_tokens
    /\ UNCHANGED << now, users, blacklist, uuid, requests, issued, rotations, logouts, rlvars, appvars >>

\* lines 147-154: blacklist check
RT_BlacklistCheck(p, fail) ==
    /\ pc[p] = "rt_blcheck"
    /\ LET tok == call[p].token
           chk == IsTokenBlacklisted(blacklist, tok, now, fail)
           l == [loc[p] EXCEPT !.obs.notDenied = ~OnDenylist(tok)]
       IN IF chk.err # None
          THEN RTFail(p, Wrap("failed to check token blacklist", chk.err))
          ELSE IF chk.blacklisted
               THEN RTFail(p, NewErr("refresh token is blacklisted"))
               ELSE RTPass(p, l, "rt_blcheck")
    /\ UNCHANGED << now, users, refresh_tokens, blacklist, uuid, requests, issued, rotations, logouts, rlvars, appvars >>

\* a lookup of the owning user that goes on whether the account is active
\* or not
RT_GetUser_anyUser(p, fail) ==
    /\ pc[p] = "rt_getuser"
    /\ LET get == UserGetByID(users, loc[p].userID, fail)
           l == [loc[p] EXCEPT !.obs.active = UserActive(loc[p].userID)]
       IN IF get.err # None
          THEN RTFail(p, Wrap("failed to get user", get.err))
          ELSE RTPass(p, [l EXCEPT !.user = get.user], "rt_getuser")
    /\ UNCHANGED << now, users, refresh_tokens, blacklist, uuid, requests, issued, rotations, logouts, rlvars, appvars >>

\* lines 156-165: owning user
RT_GetUser(p, fail) ==
    /\ pc[p] = "rt_getuser"
    /\ LET get == UserGetByID(users, loc[p].userID, fail)
           l == [loc[p] EXCEPT !.obs.active = UserActive(loc[p].userID)]
       IN IF get.err # None
          THEN RTFail(p, Wrap("failed to get user", get.err))
          ELSE IF ~get.user.is_active
               THEN RTFail(p, NewErr("user account is inactive"))
               ELSE RTPass(p, [l EXCEPT !.user = get.user], "rt_getuser")
    /\ UNCHANGED << now, users, refresh_tokens, blacklist, uuid, requests, issued, rotations, logouts, rlvars, appvars >>

\* lines 167-172: blacklist the old token, error ignored
RT_AddToken(p, fail) ==
    /\ pc[p] = "rt_bladd"
    /\ LET add == AddToken(blacklist, call[p].token, refreshTokenExpiry, now, fail)
       IN /\ blacklist' = add.bl
          /\ RTPass(p, [loc[p] EXCEPT !.addTried = TRUE,
                                      !.failed = IF add.err = None THEN @ ELSE @ \cup {"AddToken"}],
                    "rt_bladd")
    /\ UNCHANGED << now, users, refresh_tokens, uuid, requests, issued, rotations, logouts, rlvars, appvars >>

\* lines 174-178: delete the record, error ignored
RT_Delete(p, fail) ==
    /\ pc[p] = "rt_delete"
    /\ LET del == TokenDeleteByTokenHash(refresh_tokens, hashToken(call[p].token), fail)
       IN /\ refresh_tokens' = del.tbl
          /\ RTPass(p, [loc[p] EXCEPT !.delTried = TRUE,
                                      !.deleted = (del.tbl # refresh_tokens),
                                      !.failed = IF del.err = None THEN @
                                                 ELSE @ \cup {"DeleteByTokenHash"}],
                    "rt_delete")
    /\ UNCHANGED << now, users, blacklist, uuid, requests, issued, rotations, logouts, rlvars, appvars >>

\* lines 180-181: issue the new pair
RT_Generate(p, fail) ==
    /\ pc[p] = "rt_generate"
    /\ LET gen == generateAuthResponseWithRefreshToken(
                      loc[p].user, users, refresh_tokens, now, uuid + 1, fail)
       IN /\ refresh_tokens' = gen.refresh_tokens
          /\ uuid' = uuid + gen.uuids
          /\ Return(p, Returned(gen.err, gen.access, gen.refresh,
                                RefreshHandler(call[p].token, gen.err)))
          /\ issued' = IF gen.err = None THEN issued \cup {gen.access, gen.refresh} ELSE issued
          /\ rotations' = IF gen.err = None
                          THEN rotations \cup {[token |-> call[p].token, new |-> gen.refresh,
                                                failed |-> loc[p].failed,
                                                obs |-> loc[p].obs, after |-> loc[p].after,
                                                afterLogout |-> loc[p].afterLogout]}
                          ELSE rotations
    /\ UNCHANGED << now, users, blacklist, requests, logouts, rlvars, appvars >>

(***************************************************************************)
(* authService.Logout, one store call per step.                            *)
(***************************************************************************)
\* a check that accepts the record of any user
Owned_anyUser(get, userID) == get.err = None

\* a check that never passes
Owned_never(get, userID) == FALSE

\* a check that always passes
Owned_always(get, userID) == TRUE

\* line 192: the record was found and its owner is the caller
Owned(get, userID) == get.err = None /\ get.row.user_id = userID

\* the record of tok exists and belongs to userID, stated on the state itself
RecordOwnedBy(tok, userID) ==
    \E r \in refresh_tokens : r.token_hash = hashToken(tok) /\ r.user_id = userID

\* what is kept of a Logout call that returned: its arguments, whether the
\* record of the token belonged to the caller when the call looked it up
\* and the store calls that returned an error
LogoutRecord(c, l) ==
    [user_id |-> c.user_id, token |-> c.token, owned |-> l.obs.record, failed |-> l.failed]

\* line 209: return nil
LOReturn(p, l) ==
    /\ pc' = [pc EXCEPT ![p] = "idle"]
    /\ call' = [call EXCEPT ![p] = NoCall]
    /\ loc' = [loc EXCEPT ![p] = LocInit]
    /\ last' = Last([op |-> "logout", after |-> {}, afterLogout |-> l.afterLogout],
                    Brief(Returned(None, None, None, LogoutHandler(None))))
    /\ logouts' = logouts \cup { LogoutRecord(call[p], l) }

\* lines 185-188
LO_Start(p, userID, tok) ==
    /\ pc[p] = "idle"
    /\ userID \in UserIds
    /\ tok \in TokenInputs \cup {EmptyToken}
    /\ LET c == [op |-> "logout", user_id |-> userID, token |-> tok]
           l == [LocInit EXCEPT !.userID = userID,
                                !.afterLogout = { Outcome(x) : x \in { y \in logouts :
                                                      y.token = tok /\ y.user_id = userID } }]
       IN IF tok # EmptyToken
          THEN /\ requests < MaxRequests
               /\ pc' = [pc EXCEPT ![p] = "lo_lookup"]
               /\ call' = [call EXCEPT ![p] = c]
               /\ loc' = [loc EXCEPT ![p] = l]
               /\ requests' = requests + 1
               /\ UNCHANGED << last, logouts >>
          ELSE /\ last' = Last([op |-> "logout", after |-> {}, afterLogout |-> {}],
                                Brief(Returned(None, None, None, LogoutHandler(None))))
               /\ UNCHANGED << pc, call, loc, requests, logouts >>
    /\ UNCHANGED << now, users, refresh_tokens, blacklist, uuid, issued, rotations, rlvars, appvars >>

\* lines 190-192: record lookup and ownership
LO_Lookup(p, fail) ==
    /\ pc[p] = "lo_lookup"
    /\ LET get == TokenGetByTokenHash(refresh_tokens, hashToken(call[p].token), fail)
           l == [loc[p] EXCEPT !.obs.record = RecordOwnedBy(call[p].token, call[p].user_id),
                               !.failed = IF fail THEN {"GetByTokenHash"} ELSE {}]
       IN IF Owned(get, call[p].user_id)
          THEN /\ pc' = [pc EXCEPT ![p] = "lo_bladd"]
               /\ loc' = [loc EXCEPT ![p] = l]
               /\ UNCHANGED << call, last, logouts >>
          ELSE LOReturn(p, l)
    /\ UNCHANGED << now, users, refresh_tokens, blacklist, uuid, requests, issued, rotations, rlvars, appvars >>

\* lines 193-198: blacklist the token, error ignored
LO_AddToken(p, fail) ==
    /\ pc[p] = "lo_bladd"
    /\ LET add == AddToken(blacklist, call[p].token, refreshTokenExpiry, now, fail)
       IN /\ blacklist' = add.bl
          /\ loc' = [loc EXCEPT ![p].addTried = TRUE,
                                 ![p].failed = IF add.err = None THEN @ ELSE @ \cup {"AddToken"}]
    /\ pc' = [pc EXCEPT ![p] = "lo_delete"]
    /\ UNCHANGED << now, users, refresh_tokens, uuid, call, last, requests, issued, rotations, logouts, rlvars, appvars >>

\* lines 200-209: delete the record, error ignored, return nil
LO_Delete(p, fail) ==
    /\ pc[p] = "lo_delete"
    /\ LET del == TokenDeleteByTokenHash(refresh_tokens, hashToken(call[p].token), fail)
       IN /\ refresh_tokens' = del.tbl
          /\ LOReturn(p, [loc[p] EXCEPT !.delTried = TRUE,
                                        !.failed = IF del.err = None THEN @
                                                   ELSE @ \cup {"DeleteByTokenHash"}])
    /\ UNCHANGED << now, users, blacklist, uuid, requests, issued, rotations, rlvars, appvars >>

(***************************************************************************)
(* authService.Register on concurrent workers, one store call per step.    *)
(***************************************************************************)
\* the call of worker p returns r
RGReturn(p, c, r) ==
    /\ pc' = [pc EXCEPT ![p] = "idle"]
    /\ call' = [call EXCEPT ![p] = NoCall]
    /\ loc' = [loc EXCEPT ![p] = LocInit]
    /\ last' = Last([op |-> "register", email |-> c.email, password |-> c.password], r)

RGFail(p, err) == RGReturn(p, call[p], Returned(err, None, None, RegisterHandler(err)))

\* auth_handler.go lines 38-44: the request is bound; part_003 lines 46-55:
\* format of the e-mail and strength of the password
RG_Start(p, email, password) ==
    /\ pc[p] = "idle"
    /\ LET c == [op |-> "register", email |-> email, password |-> password]
       IN IF ~BindRegisterOK(email, password)
          THEN /\ RGReturn(p, c, Returned(BindErr, None, None, BindHandler))
          ELSE IF ~ValidateEmail(email)
          THEN /\ RGReturn(p, c, Returned(NewErr("invalid email format"), None, None,
                                          RegisterHandler(NewErr("invalid email format"))))
          ELSE IF ~ValidatePassword(password)
          THEN /\ RGReturn(p, c, Returned(NewErr("password must be at least 8 characters long and contain uppercase, lowercase, and number"), None, None,
                                          RegisterHandler(NewErr("password must be at least 8 characters long and contain uppercase, lowercase, and number"))))
          ELSE /\ pc' = [pc EXCEPT ![p] = "rg_lookup"]
               /\ call' = [call EXCEPT ![p] = c]
               /\ loc' = [loc EXCEPT ![p] = LocInit]
               /\ last' = last
    /\ UNCHANGED << now, users, refresh_tokens, blacklist, uuid, requests, issued, rotations, logouts, rlvars, appvars >>

\* lines 57-65: the e-mail of the request, as given, must not be registered
RG_Lookup(p, fail) ==
    /\ pc[p] = "rg_lookup"
    /\ LET get == UserGetByEmail(users, call[p].email, fail)
       IN IF get.err = None
          THEN RGFail(p, NewErr("user with email <email> already exists"))
          ELSE IF ~EqualsSentinel(get.err, "ErrNotFound")
          THEN RGFail(p, Wrap("failed to check user existence", get.err))
          ELSE /\ pc' = [pc EXCEPT ![p] = "rg_create"]
               /\ UNCHANGED << call, loc, last >>
    /\ UNCHANGED << now, users, refresh_tokens, blacklist, uuid, requests, issued, rotations, logouts, rlvars, appvars >>

\* lines 67-84: hash the password and insert the row with the normalized e-mail
RG_Create(p, failHash, fail) ==
    /\ pc[p] = "rg_create"
    /\ IF failHash
       THEN /\ RGFail(p, Wrap("failed to hash password", NewErr("bcrypt error")))
            /\ UNCHANGED << users, uuid >>
       ELSE LET user == [id |-> uuid + 1, email |-> SanitizeEmail(call[p].email),
                         password_hash |-> HashPassword(call[p].password),
                         is_active |-> TRUE, last_login_at |-> NoTime]
                create == UserCreate(users, user, fail)
            IN /\ users' = create.tbl
               /\ uuid' = uuid + 1
               /\ IF create.err # None
                  THEN RGFail(p, Wrap("failed to create user", create.err))
                  ELSE /\ pc' = [pc EXCEPT ![p] = "rg_generate"]
                       /\ loc' = [loc EXCEPT ![p].user = user]
                       /\ UNCHANGED << call, last >>
    /\ UNCHANGED << now, refresh_tokens, blacklist, requests, issued, rotations, logouts, rlvars, appvars >>

\* lines 86-87: issue the pair
RG_Generate(p, fail) ==
    /\ pc[p] = "rg_generate"
    /\ LET gen == generateAuthResponseWithRefreshToken(
                      loc[p].user, users, refresh_tokens, now, uuid + 1, fail)
       IN /\ refresh_tokens' = gen.refresh_tokens
          /\ uuid' = uuid + gen.uuids
          /\ RGReturn(p, call[p], Returned(gen.err, gen.access, gen.refresh, RegisterHandler(gen.err)))
          /\ issued' = IF gen.err = None THEN issued \cup {gen.access, gen.refresh} ELSE issued
    /\ UNCHANGED << now, users, blacklist, requests, rotations, logouts, rlvars, appvars >>

\* the process dies, or the request is abandoned, between two store calls
Crash(p) ==
    /\ pc[p] # "idle"
    /\ IF call[p].op = "login"
       THEN LGReturn(p, call[p], loc[p].failed \cup {"Crash"}, NoRes)
       ELSE Return(p, NoRes)
    /\ UNCHANGED << now, users, refresh_tokens, blacklist, uuid, requests, issued, rotations, logouts, rlvars, appvars >>

(***************************************************************************)
(* RateLimiter.  The clock of the rate limiter advances by ticks; Redis    *)
(* drops a sorted set whose time to live has run out.                      *)
(***************************************************************************)
engine == << users, refresh_tokens, uuid, pc, call, loc, last, requests, issued,
             rotations, logouts >>

RLTick ==
    /\ Clock < MaxTime * TicksPerSecond
    /\ IF sub + 1 < TicksPerSecond
       THEN sub' = sub + 1 /\ now' = now /\ blacklist' = blacklist
       ELSE sub' = 0 /\ now' = now + 1 /\ blacklist' = RedisExpire(blacklist, now + 1)
    /\ fine' = 0
    /\ zset' = [k \in Keys |-> IF zttl[k] # NoTime /\ Clock + 1 >= zttl[k] THEN {} ELSE zset[k]]
    /\ zttl' = [k \in Keys |-> IF zttl[k] # NoTime /\ Clock + 1 >= zttl[k] THEN NoTime ELSE zttl[k]]
    /\ UNCHANGED << engine, appvars, calls, rl, rl_last, admitted >>

\* an admitted request: the clock reading of its Allow call and the number of
\* the call
Admission(t, id) == [t |-> t, id |-> id]

\* what is kept of a request that went through the middleware
MWCall(key, t, id, F, G, m) ==
    [op |-> "middleware", key |-> key, t |-> t, id |-> id, faults |-> F, faultsRemaining |-> G,
     allowed |-> m.allow.allowed, err |-> m.allow.err,
     count |-> m.allow.count, status |-> m.status, next |-> m.next, remaining |-> m.remaining]

(***************************************************************************)
(* RateLimiter.Allow, RateLimiter.GetRemainingRequests and the middleware, *)
(* one Redis call per step: each request runs on its own worker, and the   *)
(* Redis calls of the workers are interleaved in any order, the clock      *)
(* moving between them.  A Redis call takes longer than the resolution of  *)
(* the clock: two calls read the same nanosecond only if no call has made  *)
(* its first Redis call between the two readings.                          *)
(***************************************************************************)
\* what the middleware keeps of the result of Allow
Kept(r) == [allowed |-> r.allowed, err |-> r.err, count |-> r.count]

\* the rate-limited call a worker begins: op is "allow", "remaining" (the
\* two methods called on their own) or "middleware" (a request); of a method
\* called on its own the sorted set it finds is kept
RLBegin(p, op, key, first) ==
    /\ rl[p].pc = "idle"
    /\ calls < MaxRequests
    /\ rl' = [rl EXCEPT ![p] = [pc |-> first, op |-> op, key |-> key, t |-> ReadClock,
                                t2 |-> ReadClock, id |-> calls + 1, count |-> 0,
                                before |-> IF op = "middleware" THEN {} ELSE zset[key],
                                faults |-> {},
                                allow |-> Kept(RLResult(FALSE, 0, None, {}, NoTime, 0))]]
    /\ calls' = calls + 1
    /\ UNCHANGED << now, blacklist, engine, appvars, sub, fine, zset, zttl, rl_last, admitted >>

\* Allow returns r, F being the Redis calls of it that failed.  In the
\* middleware (rate_limit.go lines 20-42) an error that is not a denial ends
\* the request with c.Next(); otherwise GetRemainingRequests is called next
RLReturn(p, r, F) ==
    /\ IF rl[p].op = "middleware"
       THEN IF CallsGetRemaining(r)
            THEN /\ rl' = [rl EXCEPT ![p].pc = "remaining", ![p].allow = Kept(r), ![p].faults = F]
                 /\ rl_last' = rl_last
            ELSE /\ rl' = [rl EXCEPT ![p] = RLIdle]
                 /\ rl_last' = MWCall(rl[p].key, rl[p].t, rl[p].id, F, {},
                                      RateLimitMiddleware(r, 0))
       ELSE /\ rl' = [rl EXCEPT ![p] = RLIdle]
            /\ rl_last' = RLCall("allow", rl[p].key, rl[p].t, rl[p].id, F, rl[p].before, r)
    /\ admitted' = IF r.allowed
                    THEN [admitted EXCEPT ![rl[p].key] = @ \cup { Admission(rl[p].t, rl[p].id) }]
                    ELSE admitted

\* rate_limiter.go lines 25-30: Allow called on its own
RL_Start(p, key) == RLBegin(p, "allow", key, "trim")

\* rate_limit.go lines 17-20: a request reaches the middleware, which calls Allow
MW_Start(p, key) == RLBegin(p, "middleware", key, "trim")

\* lines 32-36
RL_Trim(p, fail) ==
    /\ rl[p].pc = "trim"
    /\ LET key == rl[p].key
           trimmed == ZRemRangeByScore(zset[key], 0, UnixBefore(rl[p].t, RateLimitWindow))
       IN IF fail
          THEN /\ RLReturn(p, RLResult(FALSE, 0, Wrap("failed to clean old entries", DriverErr),
                                       zset[key], zttl[key], 0), {"ZRemRangeByScore"})
               /\ UNCHANGED << zset, zttl >>
          ELSE /\ zset' = [zset EXCEPT ![key] = trimmed]
               /\ zttl' = [zttl EXCEPT ![key] = KeyTTL(trimmed, @)]
               /\ rl' = [rl EXCEPT ![p].pc = "count"]
               /\ UNCHANGED << rl_last, admitted >>
    /\ fine' = fine + 1
    /\ UNCHANGED << now, blacklist, engine, appvars, sub, calls >>

\* a count that records the request before the limit is applied
RL_Count_addThenDecide(p, fail) ==
    /\ rl[p].pc = "count"
    /\ LET key == rl[p].key
           count == ZCard(zset[key])
       IN /\ zset' = [zset EXCEPT ![key] = ZAdd(@, Unix(rl[p].t), Member(rl[p].t))]
          /\ rl' = [rl EXCEPT ![p].pc = IF count >= RateLimitRequests THEN "oldest" ELSE "expire",
                              ![p].count = count]
    /\ UNCHANGED << now, blacklist, engine, appvars, sub, fine, calls, zttl, rl_last, admitted >>

\* lines 38-45: ZCard and the comparison with the limit
RL_Count(p, fail) ==
    /\ rl[p].pc = "count"
    /\ LET key == rl[p].key
           count == ZCard(zset[key])
       IN IF fail
          THEN RLReturn(p, RLResult(FALSE, 0, Wrap("failed to count entries", DriverErr),
                                    zset[key], zttl[key], 0), {"ZCard"})
          ELSE /\ rl' = [rl EXCEPT ![p].pc = IF count >= RateLimitRequests THEN "oldest" ELSE "add",
                                   ![p].count = count]
               /\ UNCHANGED << rl_last, admitted >>
    /\ UNCHANGED << now, blacklist, engine, appvars, sub, fine, calls, zset, zttl >>

\* lines 46-55: ZRangeWithScores(key, 0, 0) and the denial; the retry time is
\* in the message if the call succeeds and the sorted set still has an entry
RL_Oldest(p, fail) ==
    /\ rl[p].pc = "oldest"
    /\ LET key == rl[p].key
       IN IF ~fail /\ zset[key] # {}
          THEN RLReturn(p, RLResult(FALSE, 0, NewErr("rate limit exceeded, try again in <d>"),
                                    zset[key], zttl[key], rl[p].count), {})
          ELSE RLReturn(p, RLResult(FALSE, 0, NewErr("rate limit exceeded"),
                                    zset[key], zttl[key], rl[p].count),
                        IF fail THEN {"ZRangeWithScores"} ELSE {})
    /\ UNCHANGED << now, blacklist, engine, appvars, sub, fine, calls, zset, zttl >>

\* lines 57-65
RL_Add(p, fail) ==
    /\ rl[p].pc = "add"
    /\ LET key == rl[p].key
       IN IF fail
          THEN /\ RLReturn(p, RLResult(FALSE, 0, Wrap("failed to add entry", DriverErr),
                                       zset[key], zttl[key], rl[p].count), {"ZAdd"})
               /\ UNCHANGED zset
          ELSE /\ zset' = [zset EXCEPT ![key] = ZAdd(@, Unix(rl[p].t), Member(rl[p].t))]
               /\ rl' = [rl EXCEPT ![p].pc = "expire"]
               /\ UNCHANGED << rl_last, admitted >>
    /\ UNCHANGED << now, blacklist, engine, appvars, sub, fine, calls, zttl >>

\* lines 67-74: the error of Expire is dropped
RL_Expire(p, fail) ==
    /\ rl[p].pc = "expire"
    /\ LET key == rl[p].key
           ttl == IF fail THEN zttl[key]
                  ELSE Expire(zset[key], zttl[key], Clock, RateLimitWindow + Minute)
       IN /\ zttl' = [zttl EXCEPT ![key] = ttl]
          /\ RLReturn(p, RLResult(TRUE, 0, None, zset[key], ttl, rl[p].count),
                      IF fail THEN {"Expire"} ELSE {})
    /\ UNCHANGED << now, blacklist, engine, appvars, sub, fine, calls, zset >>

\* GetRemainingRequests returns r, G being the Redis calls of it that failed;
\* in the middleware (rate_limit.go lines 27-35, 45-62) its error is dropped
\* and the response is written
RMReturn(p, r, G) ==
    /\ rl' = [rl EXCEPT ![p] = RLIdle]
    /\ rl_last' = IF rl[p].op = "middleware"
                   THEN MWCall(rl[p].key, rl[p].t, rl[p].id, rl[p].faults, G,
                               RateLimitMiddleware(rl[p].allow, r.remaining))
                   ELSE RLCall("remaining", rl[p].key, rl[p].t2, rl[p].id, G, rl[p].before, r)

\* rate_limiter.go lines 79-82: GetRemainingRequests called on its own
RM_Start(p, key) == RLBegin(p, "remaining", key, "rm_trim")

\* lines 79-82, called by the middleware after Allow: the clock is read again
MW_Remaining(p) ==
    /\ rl[p].pc = "remaining"
    /\ rl' = [rl EXCEPT ![p].pc = "rm_trim", ![p].t2 = ReadClock]
    /\ UNCHANGED << now, blacklist, engine, appvars, sub, fine, calls, zset, zttl, rl_last, admitted >>

\* lines 84-88
RM_Trim(p, fail) ==
    /\ rl[p].pc = "rm_trim"
    /\ LET key == rl[p].key
           trimmed == ZRemRangeByScore(zset[key], 0, UnixBefore(rl[p].t2, RateLimitWindow))
       IN IF fail
          THEN /\ RMReturn(p, RLResult(FALSE, 0, Wrap("failed to clean old entries", DriverErr),
                                       zset[key], zttl[key], 0), {"ZRemRangeByScore"})
               /\ UNCHANGED << zset, zttl >>
          ELSE /\ zset' = [zset EXCEPT ![key] = trimmed]
               /\ zttl' = [zttl EXCEPT ![key] = KeyTTL(trimmed, @)]
               /\ rl' = [rl EXCEPT ![p].pc = "rm_count"]
               /\ UNCHANGED rl_last
    /\ fine' = fine + 1
    /\ UNCHANGED << now, blacklist, engine, appvars, sub, calls, admitted >>

\* lines 90-101
RM_Count(p, fail) ==
    /\ rl[p].pc = "rm_count"
    /\ LET key == rl[p].key
           count == ZCard(zset[key])
       IN IF fail
          THEN RMReturn(p, RLResult(FALSE, 0, Wrap("failed to count entries", DriverErr),
                                    zset[key], zttl[key], 0), {"ZCard"})
          ELSE RMReturn(p, RLResult(FALSE, Remaining(RateLimitRequests, count), None,
                                    zset[key], zttl[key], count), {})
    /\ UNCHANGED << now, blacklist, engine, appvars, sub, fine, calls, zset, zttl, admitted >>

(***************************************************************************)
(* App.Shutdown and infrastructure.Shutdown.                               *)
(***************************************************************************)
\* a join that keeps the result received last
Join_last(errs) == IF errs # << >> /\ errs[Len(errs)] = "err" THEN "err" ELSE "nil"

\* errors.Join: nil if every argument is nil
Join(errs) == IF \E i \in DOMAIN errs : errs[i] = "err" THEN "err" ELSE "nil"

Outcomes(ok) == IF ok THEN "nil" ELSE "err"

rest == << now, blacklist, engine, rlvars >>

\* part_004 lines 200-214: the two go statements
SD_Begin ==
    /\ sd.app = "running"
    /\ sd' = [sd EXCEPT !.app = "waiting", !.task["server"] = "started",
                        !.task["infra"] = "started"]
    /\ run' = [run EXCEPT !.shutdowns = @ + 1,
                          !.pc = IF @ = "shutdown" THEN "waiting" ELSE @]
    /\ UNCHANGED << rest, hc, cfg >>

\* line 209: server.Shutdown(ctx) returns and its result is sent
SD_Server(ok) ==
    /\ sd.task["server"] = "started"
    /\ Len(sd.appErrs) < AppErrsCap
    /\ sd' = [sd EXCEPT !.task["server"] = Outcomes(ok),
                        !.appErrs = Append(@, Outcomes(ok))]
    \* a server that was still listening returns http.ErrServerClosed
    /\ run' = [run EXCEPT !.serve = IF @ = "listening" THEN "closed" ELSE @]
    /\ UNCHANGED << rest, hc, cfg >>

\* infrastructure.go lines 91-96: the four go statements
SD_InfraBegin ==
    /\ sd.task["infra"] = "started"
    /\ sd' = [sd EXCEPT !.task = [r \in Tasks \cup Closers |->
                                     IF r \in Closers THEN "started"
                                     ELSE IF r = "infra" THEN "joining" ELSE sd.task[r]]]
    /\ UNCHANGED << rest, hc, cfg, run >>

\* lines 93-96: the close of one resource returns and its result is sent
SD_Close(r, ok) ==
    /\ r \in Closers
    /\ sd.task[r] = "started"
    /\ Len(sd.infraErrs) < InfraErrsCap
    /\ sd' = [sd EXCEPT !.task[r] = Outcomes(ok),
                        !.infraErrs = Append(@, Outcomes(ok))]
    /\ UNCHANGED << rest, hc, cfg, run >>

\* line 98: one receive of errors.Join(<-errs, <-errs, <-errs, <-errs); after
\* the fourth the joined result is returned and sent (part_004 line 213)
SD_InfraReceive ==
    /\ sd.task["infra"] = "joining"
    /\ sd.infraErrs # << >>
    /\ Len(sd.infraGot) + 1 = Cardinality(Closers) => Len(sd.appErrs) < AppErrsCap
    /\ LET got == Append(sd.infraGot, Head(sd.infraErrs))
       IN sd' = IF Len(got) < Cardinality(Closers)
                THEN [sd EXCEPT !.infraErrs = Tail(@), !.infraGot = got]
                ELSE [sd EXCEPT !.infraErrs = Tail(@), !.infraGot = got,
                                !.task["infra"] = Join(got),
                                !.appErrs = Append(@, Join(got))]
    /\ UNCHANGED << rest, hc, cfg, run >>

\* part_004 lines 216-223: one receive of errors.Join(<-errs, <-errs); after
\* the second the joined result is returned
SD_AppReceive ==
    /\ sd.app = "waiting"
    /\ sd.appErrs # << >>
    /\ LET got == Append(sd.appGot, Head(sd.appErrs))
       IN sd' = IF Len(got) < Cardinality(Tasks)
                THEN [sd EXCEPT !.appErrs = Tail(@), !.appGot = got]
                ELSE [sd EXCEPT !.appErrs = Tail(@), !.appGot = got,
                                !.app = "returned", !.result = Join(got)]
    /\ UNCHANGED << rest, hc, cfg, run >>

(***************************************************************************)
(* App.Run.                                                                *)
(***************************************************************************)
\* part_004 lines 165-178: the channel is made and the goroutine that calls
\* ListenAndServe is started
Run_Start ==
    /\ run.pc = "init"
    /\ run' = [run EXCEPT !.pc = "select", !.serve = "listening"]
    /\ UNCHANGED << rest, sd, hc, cfg >>

\* lines 174-177: ListenAndServe returns an error other than ErrServerClosed
\* and the goroutine sends it
Run_ServerFail ==
    /\ run.serve = "listening"
    /\ Len(run.errChan) < ErrChanCap
    /\ run' = [run EXCEPT !.serve = "failed", !.errChan = Append(@, "err")]
    /\ UNCHANGED << rest, sd, hc, cfg >>

\* the caller of Run cancels the context
Run_Cancel ==
    /\ ~run.cancelled
    /\ run' = [run EXCEPT !.cancelled = TRUE]
    /\ UNCHANGED << rest, sd, hc, cfg >>

\* lines 181-184: the select takes the case that receives from errChan
Run_SelectErr ==
    /\ run.pc = "select"
    /\ run.errChan # << >>
    /\ run' = [run EXCEPT !.pc = "shutdown", !.serverErr = Head(run.errChan),
                          !.errChan = Tail(@)]
    /\ UNCHANGED << rest, sd, hc, cfg >>

\* lines 185-186: the select takes the case of ctx.Done()
Run_SelectDone ==
    /\ run.pc = "select"
    /\ run.cancelled
    /\ run' = [run EXCEPT !.pc = "shutdown"]
    /\ UNCHANGED << rest, sd, hc, cfg >>

\* line 189: the call of a.Shutdown()
Run_Shutdown ==
    /\ run.pc = "shutdown"
    /\ SD_Begin

\* what Run returns, lines 189-197, from serverErr and the result of Shutdown
RunResult(serverErr, err) ==
    IF err # "nil"
    THEN IF serverErr # "nil" THEN "server+shutdown" ELSE "shutdown"
    ELSE IF serverErr # "nil" THEN "server" ELSE "nil"

\* lines 189-197: Shutdown has returned and Run returns
Run_Return ==
    /\ run.pc = "waiting"
    /\ sd.app = "returned"
    /\ run' = [run EXCEPT !.pc = "returned",
                          !.result = RunResult(run.serverErr, sd.result)]
    /\ UNCHANGED << rest, sd, hc, cfg >>

(***************************************************************************)
(* HealthChecker.                                                          *)
(***************************************************************************)
\* part_004 lines 24-36 and 41-42: a request to /health; the context with the
\* timeout and the two go statements
HC_Begin ==
    /\ hc.phase \in {"idle", "done"}
    /\ hc.n < MaxRequests
    /\ hc' = [HCInit EXCEPT !.phase = "checking", !.n = hc.n + 1,
                            !.ping = [r \in Pinged |-> "started"]]
    /\ UNCHANGED << rest, sd, cfg, run >>

\* line 25: healthCheckTimeout elapses
HC_Deadline ==
    /\ hc.phase = "checking"
    /\ ~hc.expired
    /\ hc' = [hc EXCEPT !.expired = TRUE]
    /\ UNCHANGED << rest, sd, cfg, run >>

\* line 31 and postgres.go lines 35-37: Postgres.Ping is p.DB.Ping(), which
\* takes no context: it returns when the driver answers, before the deadline
\* or after it
HC_PingPostgres(ok) ==
    /\ hc.ping["postgres"] = "started"
    /\ hc' = [hc EXCEPT !.ping["postgres"] = Outcomes(ok),
                        !.late["postgres"] = hc.expired,
                        !.errs = Append(@, Outcomes(ok))]
    /\ UNCHANGED << rest, sd, cfg, run >>

\* line 35 and redis.go lines 37-39: Client.Ping(ctx) returns the error of
\* the context once the deadline has passed
HC_PingRedis(ok) ==
    /\ hc.ping["redis"] = "started"
    /\ ok => ~hc.expired
    /\ hc' = [hc EXCEPT !.ping["redis"] = Outcomes(ok),
                        !.late["redis"] = hc.expired,
                        !.errs = Append(@, Outcomes(ok))]
    /\ UNCHANGED << rest, sd, cfg, run >>

\* line 38: one receive of errors.Join(<-errs, <-errs); after the second,
\* lines 41-52: the response
HC_Receive ==
    /\ hc.phase = "checking"
    /\ hc.errs # << >>
    /\ LET got == Append(hc.got, Head(hc.errs))
       IN hc' = IF Len(got) < Cardinality(Pinged)
                THEN [hc EXCEPT !.errs = Tail(@), !.got = got]
                ELSE [hc EXCEPT !.errs = Tail(@), !.got = got, !.phase = "done",
                                !.status = IF Join(got) = "nil" THEN 200 ELSE 503]
    /\ UNCHANGED << rest, sd, cfg, run >>

(***************************************************************************)
(* config.Load.                                                            *)
(***************************************************************************)
\* values of JWT_SECRET: not set, or up to MaxSecret characters of which
\* none, one or a half are encoded in two bytes
SecretInputs ==
    {Unset} \cup { Set(Secret(n - w, w)) : n \in (MinSecretLen \div 2)..MaxSecret,
                                           w \in {0, 1, MinSecretLen \div 2} }
       \cup { Set(Secret(n, 0)) : n \in 0..(MinSecretLen \div 2) }
\* values of JWT_ACCESS_TOKEN_EXPIRY
ExpiryInputs ==
    {Unset} \cup { Set(v) : v \in { << >>, << "3", "0", "m" >>, << "7", "d" >>, << "d" >>,
                                    << "a", "b", "c" >>, << "+", "7", "d" >>,
                                    << "-", "7", "d" >>, << "1", "h", "3", "0", "m" >>,
                                    << "1", ".", "5", "h" >>, << "1", "0", "0", "m", "s" >>,
                                    << "0" >>, << "3", "0" >>, << ".", "s" >>,
                                    Int64Limit \o << "d" >>,
                                    Int64Limit \o << "x", "d" >>,
                                    << "1","8","4","4","6","7","4","4","0","7","3","7","0","9","5","5","1","6","1","6", "x", "d" >>,
                                    << "2","5","6","2","0","4","8", "h" >>,
                                    << "2","5","6","2","0","4","7", "h", "4","7", "m" >>,
                                    << "2","5","6","2","0","4","7", "h", "4","8", "m" >>,
                                    << "2","5","6","2","0","4","7", ".", "9", "h" >>,
                                    Int64Limit \o << "n", "s" >>,
                                    << "-" >> \o Int64Limit \o << "n", "s" >> } }

\* the process starts with this environment and loads its configuration,
\* once (cmd/server/main.go line 18)
DoLoad(jwtSecret, expiry) ==
    /\ cfg = NoLoad
    /\ jwtSecret \in SecretInputs
    /\ expiry \in ExpiryInputs
    /\ LET env == [JWT_SECRET |-> jwtSecret, JWT_ACCESS_TOKEN_EXPIRY |-> expiry]
       IN cfg' = [op |-> "load", env |-> env, res |-> Load(env)]
    /\ UNCHANGED << rest, sd, hc, run >>

(***************************************************************************)
(* Specifications.                                                         *)
(***************************************************************************)
\* the logins that feed the rotation: the active account, right password,
\* one login after the other
LoginsOfActiveUser ==
    \E p \in {"w1"} :
        \/ LG_Start(p, str_a, pw_good)
        \/ LG_Lookup(p, FALSE)
        \/ LG_Update(p, FALSE)
        \/ \E fail \in BOOLEAN : LG_Generate(p, fail)

Next ==
    \/ Tick
    \/ LoginsOfActiveUser
    \/ \E p \in Workers : \E tok \in TokenInputs : RT_Start(p, tok)
    \/ \E p \in Workers : \E fail \in BOOLEAN : RT_Lookup(p, fail)
    \/ \E p \in Workers : \E fail \in BOOLEAN : RT_BlacklistCheck(p, fail)
    \/ \E p \in Workers : \E fail \in BOOLEAN : RT_GetUser(p, fail)
    \/ \E p \in Workers : \E fail \in BOOLEAN : RT_AddToken(p, fail)
    \/ \E p \in Workers : \E fail \in BOOLEAN : RT_Delete(p, fail)
    \/ \E p \in Workers : \E fail \in BOOLEAN : RT_Generate(p, fail)
    \/ \E p \in Workers : Crash(p)

\* the credential lifecycle: logins and rotations on concurrent workers
Spec == Init /\ [][Next]_vars

\* the rotation with everything one of its checks can meet: the clock runs
\* past the life of a record, the account is deactivated (userRepository.
\* Update) and the tables are emptied while calls are between two store
\* calls.  The store calls that the driver fails are the reads the checks
\* rest on; the insert of a record fails when its user is gone
NextChecks ==
    \/ TickTo(AfterExpiry)
    \/ LG_Start("w1", str_a, pw_good)
    \/ LG_Lookup("w1", FALSE)
    \/ LG_Update("w1", FALSE)
    \/ LG_Generate("w1", FALSE)
    \/ \E p \in Workers : \E tok \in TokenInputs : RT_Start(p, tok)
    \/ \E p \in Workers : \E fail \in BOOLEAN : RT_Lookup(p, fail)
    \/ \E p \in Workers : \E fail \in BOOLEAN : RT_BlacklistCheck(p, fail)
    \/ \E p \in Workers : \E fail \in BOOLEAN : RT_GetUser(p, fail)
    \/ \E p \in Workers : RT_AddToken(p, FALSE)
    \/ \E p \in Workers : RT_Delete(p, FALSE)
    \/ \E p \in Workers : RT_Generate(p, FALSE)
    \/ DoUserUpdate([ActiveUser EXCEPT !.is_active = FALSE], FALSE)
    \/ DoCleanup

\* logins and rotations on concurrent workers, to the end of a record's life
\* and of an account
SpecChecks == Init /\ [][NextChecks]_vars

\* the store calls that can fail in one Register call: each failure ends the
\* call, so at most one is reached
RegisterFaults == { {} } \cup { {c} : c \in {"GetByEmail", "HashPassword", "Create", "TokenCreate"} }

NextAccounts ==
    \/ Tick
    \/ \E email \in EmailInputs : \E password \in {pw_good, pw_weak} :
         \E F \in RegisterFaults : DoRegister(email, password, F)
    \/ \E p \in {"w1"} : \E email \in EmailInputs : \E password \in {pw_good, pw_other} :
         LG_Start(p, email, password)
    \/ \E p \in {"w1"} : \E fail \in BOOLEAN : LG_Lookup(p, fail)
    \/ \E p \in {"w1"} : \E fail \in BOOLEAN : LG_Update(p, fail)
    \/ \E p \in {"w1"} : \E fail \in BOOLEAN : LG_Generate(p, fail)

\* registration and login of accounts: the logins one after the other, the
\* registrations between their store calls
SpecAccounts == Init /\ [][NextAccounts]_vars

NextAccess ==
    \/ Tick
    \/ LoginsOfActiveUser
    \/ \E header \in HeaderInputs : \E fail \in BOOLEAN : DoValidateToken(header, fail)
    \/ \E tok \in issued : \E fail \in BOOLEAN : Revoke(tok, fail)

\* validation of presented tokens by the middleware, with revocations
SpecAccess == Init /\ [][NextAccess]_vars

NextStores ==
    \/ Tick
    \/ LoginsOfActiveUser
    \/ \E tok \in issued : \E fail \in BOOLEAN : Revoke(tok, fail)
    \/ \E tok \in issued : \E fail \in BOOLEAN : DoRemoveToken(tok, fail)
    \/ \E id \in 1..(uuid + 1) : \E fail \in BOOLEAN : DoTokenDelete(id, fail)
    \/ \E fail \in BOOLEAN : DoTokenDeleteExpired(fail)
    \/ \E user \in UpdateInputs : \E fail \in BOOLEAN : DoUserUpdate(user, fail)

\* the stores under the methods that the service does not call, with logins
\* and revocations to fill them
SpecStores == Init /\ [][NextStores]_vars

\* the tokens a Logout or a RefreshToken request carries here: the issued ones
\* (a refresh token whose record is there or gone, an access token); the
\* store calls of RefreshToken succeed
NextLogout ==
    \/ Tick
    \/ LoginsOfActiveUser
    \/ \E p \in Workers : \E userID \in UserIds : \E tok \in issued \cup {EmptyToken} :
         LO_Start(p, userID, tok)
    \/ \E p \in Workers : \E fail \in BOOLEAN : LO_Lookup(p, fail)
    \/ \E p \in Workers : \E fail \in BOOLEAN : LO_AddToken(p, fail)
    \/ \E p \in Workers : \E fail \in BOOLEAN : LO_Delete(p, fail)
    \/ \E p \in Workers : \E tok \in issued : RT_Start(p, tok)
    \/ \E p \in Workers : RT_Lookup(p, FALSE)
    \/ \E p \in Workers : RT_BlacklistCheck(p, FALSE)
    \/ \E p \in Workers : RT_GetUser(p, FALSE)
    \/ \E p \in Workers : RT_AddToken(p, FALSE)
    \/ \E p \in Workers : RT_Delete(p, FALSE)
    \/ \E p \in Workers : RT_Generate(p, FALSE)

\* logouts and rotations of the tokens of the active user on concurrent workers
SpecLogout == Init /\ [][NextLogout]_vars

NextLogoutAccess ==
    \/ Tick
    \/ LoginsOfActiveUser
    \/ \E p \in {"w2"} : \E userID \in UserIds : \E tok \in issued \cup {EmptyToken} :
         LO_Start(p, userID, tok)
    \/ \E p \in {"w2"} : \E fail \in BOOLEAN : LO_Lookup(p, fail)
    \/ \E p \in {"w2"} : \E fail \in BOOLEAN : LO_AddToken(p, fail)
    \/ \E p \in {"w2"} : \E fail \in BOOLEAN : LO_Delete(p, fail)
    \/ \E tok \in issued : \E fail \in BOOLEAN : DoValidateToken(Bearer(tok), fail)

\* validation of the issued tokens by the middleware, with logins on one
\* worker and logouts on the other
SpecLogoutAccess == Init /\ [][NextLogoutAccess]_vars

\* e-mails of concurrent registrations: a registered address and one that is
\* not, each also in capitals or with a leading space, and two addresses on
\* which the binding and the service's own pattern may differ
RegisterEmails == { str_a, str_A, str_sp_a, str_tab_a, str_c, str_C, str_quoted, str_uscore }

\* Register, one store call per step.  In the code as written the lookup of
\* an e-mail that no account has returns the not-found error wrapped, which
\* never equals the sentinel (part_003 line 63), so RG_Lookup never moves a
\* call to rg_create and the two steps after it are never enabled
NextRegister ==
    \/ Tick
    \/ \E p \in Workers : \E email \in RegisterEmails :
         \E password \in {pw_good, pw_weak, pw_wide, pw_short} : RG_Start(p, email, password)
    \/ \E p \in Workers : \E fail \in BOOLEAN : RG_Lookup(p, fail)
    \/ \E p \in Workers : \E failHash \in BOOLEAN : \E fail \in BOOLEAN :
         RG_Create(p, failHash, fail)
    \/ \E p \in Workers : \E fail \in BOOLEAN : RG_Generate(p, fail)

\* registrations on concurrent workers
SpecRegister == Init /\ [][NextRegister]_vars

NextConfig ==
    \E jwtSecret \in SecretInputs : \E expiry \in ExpiryInputs : DoLoad(jwtSecret, expiry)

\* start of the process
SpecConfig == Init /\ [][NextConfig]_vars

NextHealth ==
    \/ HC_Begin
    \/ HC_Deadline
    \/ \E ok \in BOOLEAN : HC_PingPostgres(ok)
    \/ \E ok \in BOOLEAN : HC_PingRedis(ok)
    \/ HC_Receive

\* requests to /health
SpecHealth == Init /\ [][NextHealth]_vars

NextShutdown ==
    \/ SD_Begin
    \/ \E ok \in BOOLEAN : SD_Server(ok)
    \/ SD_InfraBegin
    \/ \E r \in Closers : \E ok \in BOOLEAN : SD_Close(r, ok)
    \/ SD_InfraReceive
    \/ SD_AppReceive

\* the shutdown of the application
SpecShutdown == Init /\ [][NextShutdown]_vars

NextRun ==
    \/ Run_Start
    \/ Run_ServerFail
    \/ Run_Cancel
    \/ Run_SelectErr
    \/ Run_SelectDone
    \/ Run_Shutdown
    \/ \E ok \in BOOLEAN : SD_Server(ok)
    \/ SD_InfraBegin
    \/ \E r \in Closers : \E ok \in BOOLEAN : SD_Close(r, ok)
    \/ SD_InfraReceive
    \/ SD_AppReceive
    \/ Run_Return

\* the steps that Run, Shutdown and their goroutines take by themselves: the
\* scheduler runs every goroutine that can proceed, and every close returns;
\* the cancellation of the context and a failure of the server are left to
\* the environment
RunFairness ==
    /\ WF_vars(Run_Start)
    /\ WF_vars(Run_SelectErr \/ Run_SelectDone)
    /\ WF_vars(Run_Shutdown)
    /\ WF_vars(\E ok \in BOOLEAN : SD_Server(ok))
    /\ WF_vars(SD_InfraBegin)
    /\ \A r \in Closers : WF_vars(\E ok \in BOOLEAN : SD_Close(r, ok))
    /\ WF_vars(SD_InfraReceive)
    /\ WF_vars(SD_AppReceive)
    /\ WF_vars(Run_Return)

\* App.Run from its call to its return
SpecRun == Init /\ [][NextRun]_vars /\ RunFairness

\* the tokens presented to the refresh endpoint that are not refresh tokens:
\* the access tokens issued and the same tokens re-signed with another key
NotRefreshTokens == { tok \in TokenInputs : ~IsRefreshTyped(tok) }

NextTypes ==
    \/ Tick
    \/ LoginsOfActiveUser
    \/ \E p \in Workers : \E tok \in NotRefreshTokens \cup {NoCookie} : RT_Start(p, tok)

\* access tokens, and requests without a cookie, presented to the refresh
\* endpoint
SpecTypes == Init /\ [][NextTypes]_vars

NextUnavailable ==
    \/ Tick
    \/ LoginsOfActiveUser
    \/ \E header \in HeaderInputs : \E fail \in BOOLEAN : DoValidateToken(header, fail)
    \/ \E p \in Workers : \E tok \in issued \cup {NoCookie} : RT_Start(p, tok)
    \/ \E p \in Workers : RT_Lookup(p, FALSE)
    \/ \E p \in Workers : RT_BlacklistCheck(p, TRUE)

\* Redis unavailable to RefreshToken: every blacklist lookup of a rotation
\* fails, and the lookups of the middleware fail or succeed
SpecUnavailable == Init /\ [][NextUnavailable]_vars

\* the Redis calls of an Allow call
AllowSteps(p) ==
    \/ \E fail \in BOOLEAN : RL_Trim(p, fail)
    \/ \E fail \in BOOLEAN : RL_Count(p, fail)
    \/ \E fail \in BOOLEAN : RL_Oldest(p, fail)
    \/ \E fail \in BOOLEAN : RL_Add(p, fail)
    \/ \E fail \in BOOLEAN : RL_Expire(p, fail)

\* the Redis calls of a GetRemainingRequests call
RemainingSteps(p) ==
    \/ \E fail \in BOOLEAN : RM_Trim(p, fail)
    \/ \E fail \in BOOLEAN : RM_Count(p, fail)

NextMiddleware ==
    \/ RLTick
    \/ \E p \in {"w1"} : \E key \in {"ip1"} : MW_Start(p, key)
    \/ \E p \in {"w1"} : AllowSteps(p)
    \/ \E p \in {"w1"} : MW_Remaining(p)
    \/ \E p \in {"w1"} : RemainingSteps(p)
    \/ \E p \in {"w2"} : \E key \in {"ip1"} : RM_Start(p, key)
    \/ \E p \in {"w2"} : RM_Trim(p, FALSE) \/ RM_Count(p, FALSE)

\* requests of one client to the endpoints behind the rate-limit middleware,
\* served one after the other, the clock moving between their Redis calls;
\* between them too, the trim and the count of GetRemainingRequests made for
\* the same key on another worker
SpecMiddleware == Init /\ [][NextMiddleware]_vars

NextRate ==
    \/ RLTick
    \/ \E p \in {"w1"} : \E key \in {"ip1"} : RL_Start(p, key)
    \/ \E p \in {"w1"} : AllowSteps(p)
    \/ \E p \in {"w1"} : \E key \in {"ip1"} : RM_Start(p, key)
    \/ \E p \in {"w1"} : RemainingSteps(p)

\* the rate limiter, its calls executed one at a time: one worker
SpecRate == Init /\ [][NextRate]_vars

NextRateConcurrent ==
    \/ RLTick
    \/ \E p \in Workers : \E key \in {"ip1"} : RL_Start(p, key)
    \/ \E p \in Workers : AllowSteps(p)

\* the rate limiter, each request for one key on its own worker
SpecRateConcurrent == Init /\ [][NextRateConcurrent]_vars

(***************************************************************************)
(* Properties.                                                             *)
(***************************************************************************)
\* a RefreshToken call returned an error and the handler answered 401
Unauthorized(res) ==
    /\ res.err # None
    /\ res.http.status = 401
    /\ res.http.error = "Unauthorized"

\* some rotation of the same token had returned a pair, without any store
\* call failing, when the call that saw `a` started
AfterCleanRotation(a) == \E r \in rotations : r.new.claims.jti \in a /\ r.failed = {}

\* C1: once a RefreshToken(T) call has returned a token pair with no store
\* call failing, a RefreshToken(T) call that starts afterwards never returns
\* a pair, and when it returns it is answered 401 Unauthorized.
C1_RotatedTokenRejected ==
    /\ \A r \in rotations : ~AfterCleanRotation(r.after)
    /\ (last.call.op = "refresh" /\ AfterCleanRotation(last.call.after) /\ last.res.done)
          => Unauthorized(last.res)

\* a call that started after a clean rotation of its token has been answered
C1_Witness ==
    /\ last.call.op = "refresh"
    /\ AfterCleanRotation(last.call.after)
    /\ last.res.done
    /\ last.res.http.status = 401
    /\ \E r \in rotations : r.failed = {} /\ ~RecordExists(r.token)

\* C2: two RefreshToken(T) calls on one token T that run concurrently (neither
\* starts after the other has returned) never both return a token pair.
C2_AtMostOnePairPerToken ==
    \A r1 \in rotations : \A r2 \in rotations :
        (r1.token = r2.token /\ r1 # r2)
            => (r1.new.claims.jti \in r2.after \/ r2.new.claims.jti \in r1.after)

\* C3: after a rotation of T whose record delete failed, no later
\* RefreshToken(T) call returns a pair.
C3_RejectedAfterFailedDelete ==
    \A r \in rotations : \A q \in rotations :
        (q.token = r.token /\ q.new.claims.jti \in r.after)
            => "DeleteByTokenHash" \notin q.failed

\* C4: in a RefreshToken call the blacklist add has been attempted whenever
\* the record delete is about to be attempted or has been attempted, so at
\* every point where the call can stop (a crash included) the record is not
\* deleted by it with the add still to come.
C4_AddBeforeDelete ==
    \A p \in Workers :
        call[p].op = "refresh" =>
            /\ pc[p] = "rt_delete" => loc[p].addTried
            /\ loc[p].delTried => loc[p].addTried
            /\ loc[p].deleted => loc[p].addTried

\* a call has deleted the record of its token
C4_Witness ==
    \E p \in Workers : call[p].op = "refresh" /\ loc[p].deleted /\ loc[p].addTried

\* the checks a call at step `step` has passed
Passed(step) ==
    CASE step = "rt_lookup" -> {"verified"}
      [] step = "rt_blcheck" -> {"verified", "record", "fresh"}
      [] step = "rt_getuser" -> {"verified", "record", "fresh", "notDenied"}
      [] step \in {"rt_bladd", "rt_delete", "rt_generate"} ->
             {"verified", "record", "fresh", "notDenied", "active"}
      [] OTHER -> {}

\* C5: a RefreshToken call goes on, and in the end returns a pair, only if what
\* it checked held in the stores when it checked it (T verifies as a refresh
\* token, its record exists and is not expired, T is not blacklisted, the
\* user exists and is active); a call that returns an error is answered 401.
C5_PairOnlyIfAllChecksHeld ==
    /\ \A r \in rotations : \A k \in DOMAIN r.obs : r.obs[k]
    /\ \A p \in Workers : call[p].op = "refresh" => \A k \in Passed(pc[p]) : loc[p].obs[k]
    /\ (last.call.op = "refresh" /\ last.res.done /\ last.res.err # None)
          => Unauthorized(last.res)

\* a call has returned a pair, and a later one has been refused at the
\* lookup of the user, the account having been deactivated in between
C5_Witness ==
    /\ rotations # {}
    /\ last.call.op = "refresh"
    /\ last.res.done
    /\ last.call.why = "user account is inactive"
    /\ Unauthorized(last.res)

\* C6: ValidateToken of a token that has a blacklist entry fails, and the
\* middleware answers 401, also when the token is validly signed and not
\* expired; the blacklist decides before the codec is asked.
C6_DeniedTokenUnauthorized ==
    (last.call.op = "validate" /\ last.call.denied) =>
        /\ last.res.err # None
        /\ last.res.http.status = 401
        /\ last.call.clean => last.res.err = NewErr("token is blacklisted")

\* a blacklisted access token that the codec accepts has been refused
C6_Witness ==
    /\ last.call.op = "validate"
    /\ last.call.denied
    /\ last.call.clean
    /\ JWTValidateToken(last.call.token, now).err = None
    /\ last.res.http.status = 401

\* C7: every refresh token returned to a caller has its record in the table
\* at the moment it is returned, and a login whose record insert fails
\* returns an error and no token.
C7_NoPairWithoutRecord ==
    [][ /\ \A tok \in issued' \ issued :
              HasClaim(tok, "type") => \E r \in refresh_tokens' : r.token_hash = hashToken(tok)
        /\ (last'.call.op = "login" /\ "TokenCreate" \in last'.call.faults)
              => (last'.res.err # None /\ last'.res.access = None /\ last'.res.refresh = None)
      ]_vars

\* a rotation has returned a pair whose record exists, and a login whose
\* record insert failed has returned no token
C7_Witness ==
    /\ \E r \in rotations : RecordExists(r.new)
    /\ last.call.op = "login"
    /\ "TokenCreate" \in last.call.faults
    /\ last.res.err # None
    /\ last.res.refresh = None

\* C8: Register with a valid e-mail and password, the e-mail not registered
\* and no store call failing, creates the user and returns a pair; a Login
\* with the credentials of a registered user returns an access token whose
\* user_id is the id of that user.
C8_RegisterThenLogin ==
    /\ (/\ last.call.op = "register"
        /\ ValidateEmail(last.call.email)
        /\ ValidatePassword(last.call.password)
        /\ ~last.call.taken
        /\ last.call.clean)
          => /\ last.res.err = None
             /\ last.res.access # None
             /\ last.res.refresh # None
             /\ \E u \in users : /\ u.email = SanitizeEmail(last.call.email)
                                 /\ CheckPasswordHash(last.call.password, u.password_hash)
    /\ (last.call.op = "login" /\ last.call.clean)
          => \A u \in users :
                (/\ u.id \notin UserIds
                 /\ u.email = SanitizeEmail(last.call.email)
                 /\ CheckPasswordHash(last.call.password, u.password_hash))
                   => (last.res.err = None /\ last.res.access.claims.user_id = u.id)

\* C9: Register with a well-formed e-mail whose normal form is the e-mail of
\* an account is answered 409 Conflict, returns no token and leaves one
\* account with that e-mail.
C9_DuplicateRegisterConflict ==
    (/\ last.call.op = "register"
     /\ ValidateEmail(last.call.email)
     /\ ValidatePassword(last.call.password)
     /\ last.call.taken
     /\ last.call.clean)
       => /\ last.res.http.status = 409
          /\ last.res.http.error = "Conflict"
          /\ last.res.refresh = None
          /\ Cardinality({ u \in users : u.email = SanitizeEmail(last.call.email) }) = 1

\* C10: a Login with a well-formed e-mail that fails, no store call failing,
\* gets the response that a Login with the e-mail of an active account and a
\* wrong password gets: the same status, the same error category and the same
\* message.
C10_LoginFailuresUniform ==
    (/\ last.call.op = "login"
     /\ ValidateEmail(last.call.email)
     /\ last.call.clean
     /\ last.res.err # None)
       => last.res.http =
             LoginHandler(Login(str_a, pw_other, users, refresh_tokens, now, uuid + 1, {}).err)

\* C11: a Login request that the handler binds, with the e-mail and the
\* password of an active account, in which no store call other than the
\* last-login update fails, returns a token pair and no error and is answered
\* 200, also when the last-login update fails; the record of the returned
\* refresh token is in the table.
C11_LoginSurvivesUpdateFailure ==
    (/\ last.call.op = "login"
     /\ BindLoginOK(last.call.email, last.call.password)
     /\ last.call.faults \subseteq {"UpdateLastLogin"}
     /\ \E u \in users : /\ u.email = SanitizeEmail(last.call.email)
                         /\ u.is_active
                         /\ CheckPasswordHash(last.call.password, u.password_hash))
       => /\ last.res.err = None
          /\ last.res.http.status = 200
          /\ last.res.access # None
          /\ last.res.refresh # None
          /\ RecordExists(last.res.refresh)

\* a login whose last-login update failed has returned a pair
C11_Witness ==
    /\ last.call.op = "login"
    /\ last.call.faults = {"UpdateLastLogin"}
    /\ last.res.err = None
    /\ last.res.refresh # None
    /\ \A u \in users : u.last_login_at = NoTime

\* worker p takes a step of a Logout call
LogoutStep(p) ==
    /\ << pc[p], call[p] >> # << pc'[p], call'[p] >>
    /\ (call[p].op = "logout" \/ call'[p].op = "logout")

\* C12: a Logout(userId, T) call goes on to the blacklist add and the record
\* delete only if, when it looks T up, a record with the digest of T exists
\* and belongs to userId; otherwise it returns, and no step of it up to
\* there changes the blacklist or the table.  The add touches only the
\* entry of T and the delete only the record of T.
C12_LogoutOwnershipCheck ==
    [][ \A p \in Workers : LogoutStep(p) =>
          /\ pc'[p] = "lo_bladd" => RecordOwnedBy(call[p].token, call[p].user_id)
          /\ pc[p] \in {"idle", "lo_lookup"} =>
                (blacklist' = blacklist /\ refresh_tokens' = refresh_tokens)
          /\ (pc[p] = "lo_lookup" /\ ~RecordOwnedBy(call[p].token, call[p].user_id))
                => pc'[p] = "idle"
          /\ pc[p] = "lo_bladd" =>
                /\ refresh_tokens' = refresh_tokens
                /\ { e \in blacklist' : e.token # call[p].token }
                      = { e \in blacklist : e.token # call[p].token }
          /\ pc[p] = "lo_delete" =>
                /\ blacklist' = blacklist
                /\ { r \in refresh_tokens' : r.token_hash # hashToken(call[p].token) }
                      = { r \in refresh_tokens : r.token_hash # hashToken(call[p].token) }
      ]_vars

\* a Logout of a token of another user has returned, leaving the record and
\* no blacklist entry, while a Logout of the owner is about to delete it
C12_Witness ==
    \E l \in logouts :
        /\ ~l.owned
        /\ l.failed = {}
        /\ l.user_id # ActiveUser.id
        /\ RecordExists(l.token)
        /\ \E p \in Workers : pc[p] = "lo_delete" /\ call[p].token = l.token

\* the tokens that have a blacklist entry
Denylisted(bl) == { e.token : e \in bl }

\* C13: every Logout call returns nil and is answered 200, whatever the user
\* id and the token (empty, without a record, of another user, already
\* revoked, owned); and a Logout that starts after a Logout with the same
\* arguments has returned changes neither the table of records nor the set
\* of blacklisted tokens: two calls leave the stores as one call does.
C13_LogoutIdempotent ==
    [][ /\ last'.call.op = "logout" =>
              (last'.res.done /\ last'.res.err = None /\ last'.res.http.status = 200)
        /\ \A p \in Workers :
              (LogoutStep(p) /\ call[p].op = "logout" /\ loc[p].afterLogout # {})
                 => /\ refresh_tokens' = refresh_tokens
                    /\ Denylisted(blacklist') = Denylisted(blacklist)
      ]_vars

\* a Logout of the token by the owner of its record had returned, exactly
\* the store calls F of it having failed, when the call that saw `a` started
AfterOwnerLogout(a, F) == \E x \in a : x.owned /\ x.failed = F

\* C14: once a Logout(userId, T) call that found the record of T belonging
\* to userId has returned with no store call failing, a RefreshToken(T) call
\* that starts afterwards never returns a pair, and when it returns it is
\* answered 401 Unauthorized.
C14_LoggedOutTokenRejected ==
    /\ \A r \in rotations : ~AfterOwnerLogout(r.afterLogout, {})
    /\ (last.call.op = "refresh" /\ last.res.done /\ AfterOwnerLogout(last.call.afterLogout, {}))
          => Unauthorized(last.res)

\* a RefreshToken call that started after the owner's Logout of its token has
\* been refused while the token still verifies (no token expires before 2)
C14_Witness ==
    /\ last.call.op = "refresh"
    /\ last.res.done
    /\ AfterOwnerLogout(last.call.afterLogout, {})
    /\ last.res.http.status = 401
    /\ now < refreshTokenExpiry
    /\ \E l \in logouts : l.owned /\ l.failed = {} /\ OnDenylist(l.token) /\ ~RecordExists(l.token)

\* a Logout of the token by the owner of its record, in which the blacklist
\* add failed, had returned when the call that saw `a` started
AfterLogoutWithoutDenylist(a) == \E x \in a : x.owned /\ "AddToken" \in x.failed

\* C15: once a Logout(userId, T) of the owner in which the blacklist add
\* failed has returned, a RefreshToken(T) call that starts afterwards never
\* returns a pair and is answered 401; the Logout itself returned nil and
\* was answered 200.
C15_LogoutRevokesWithoutDenylist ==
    /\ \A r \in rotations : ~AfterLogoutWithoutDenylist(r.afterLogout)
    /\ (last.call.op = "refresh" /\ last.res.done
            /\ AfterLogoutWithoutDenylist(last.call.afterLogout))
          => Unauthorized(last.res)
    /\ (last.call.op = "logout" /\ last.res.done) =>
          (last.res.err = None /\ last.res.http.status = 200)

\* tok is an access token: it carries the e-mail and no type
IsAccessToken(tok) == HasClaim(tok, "email") /\ ~HasClaim(tok, "type")

\* C16: Logout writes no blacklist entry for an access token, and an access
\* token that the codec accepts (signed with the secret, not expired) is
\* accepted by ValidateToken whatever Logout calls have run, the blacklist
\* lookup succeeding.
C16_LogoutKeepsAccessTokens ==
    /\ \A e \in blacklist : ~IsAccessToken(e.token)
    /\ (/\ last.call.op = "validate"
        /\ last.call.clean
        /\ IsAccessToken(last.call.token)
        /\ JWTValidateToken(last.call.token, now).err = None)
          => /\ last.res.err = None
             /\ last.res.http.status = 200
             /\ ~last.call.denied

\* the access token of a login has been accepted after the refresh token of
\* the same login was logged out by its owner and blacklisted
C16_Witness ==
    /\ last.call.op = "validate"
    /\ IsAccessToken(last.call.token)
    /\ last.res.err = None
    /\ \E l \in logouts :
          /\ l.owned
          /\ l.failed = {}
          /\ OnDenylist(l.token)
          /\ l.token.claims.iat = last.call.token.claims.iat
          /\ l.token.claims.user_id = last.call.token.claims.user_id

\* the window in ticks
WindowTicks == RateLimitWindow * TicksPerSecond

\* the admitted requests of key k whose Allow read the clock in the window
\* that begins at tick `from`: from <= t < from + window
AdmittedWithin(k, from) ==
    { a \in admitted[k] : from <= a.t.tick /\ a.t.tick < from + WindowTicks }

\* the admitted requests of key k less than a window old at instant t
AdmittedBefore(k, t) == { a \in admitted[k] : a.t.tick > t.tick - WindowTicks }

\* C17: with the Allow calls of a key executed one at a time and no Redis
\* call failing, no window-length interval holds more than `limit` admitted
\* requests of the key, and a request is denied only when `limit` requests
\* admitted less than a window before it are there.
C17_AtMostLimitPerWindow ==
    /\ \A k \in Keys : \A from \in 0..(MaxTime * TicksPerSecond) :
          Cardinality(AdmittedWithin(k, from)) <= RateLimitRequests
    /\ (rl_last.op = "allow" /\ rl_last.faults = {} /\ ~rl_last.allowed)
          => Cardinality(AdmittedBefore(rl_last.key, rl_last.t)) >= RateLimitRequests

\* the tick in which the request of an entry read the clock
EntryTick(e) == e.member[1].tick
\* the entries of a sorted set less than a window old at instant t
Young(set, t) == { e \in set : EntryTick(e) + WindowTicks > t.tick }
\* the oldest entry of a non-empty sorted set is a window old at instant t
OldestIsWindowOld(set, t) ==
    \E e \in set : /\ \A f \in set : EntryTick(e) <= EntryTick(f)
                   /\ EntryTick(e) + WindowTicks <= t.tick

\* C18: an Allow call (no Redis call failing) for a key that holds `limit`
\* entries is admitted when a window has elapsed since the oldest of them;
\* and the count an Allow call decides on is taken after every entry that
\* is a window old has been removed: it is the number of the entries the
\* call leaves in the sorted set, its own apart, none of them a window old.
C18_RecoveryAfterWindow ==
    (rl_last.op = "allow" /\ rl_last.faults = {}) =>
        /\ (Cardinality(rl_last.before) >= RateLimitRequests
              /\ OldestIsWindowOld(rl_last.before, rl_last.t)) => rl_last.allowed
        /\ rl_last.after = Young(rl_last.after, rl_last.t)
        /\ rl_last.count =
              Cardinality({ e \in rl_last.after : e.member # Member(rl_last.t) })

\* a key that held `limit` entries has been admitted again exactly one
\* window after the oldest of them
C18_Witness ==
    /\ rl_last.op = "allow"
    /\ rl_last.faults = {}
    /\ rl_last.allowed
    /\ Cardinality(rl_last.before) = RateLimitRequests
    /\ \E e \in rl_last.before :
          /\ \A f \in rl_last.before : EntryTick(e) <= EntryTick(f)
          /\ EntryTick(e) + WindowTicks = rl_last.t.tick

\* C19: with the Allow calls of a key on concurrent workers, their trim, count
\* and add steps interleaved in any order, no window-length interval holds
\* more than `limit` admitted requests of the key; in particular the
\* requests admitted with clock readings that differ and fall in one tick
\* are no more than `limit`.
C19_AtMostLimitConcurrently ==
    \A tick \in 0..(MaxTime * TicksPerSecond) :
        Cardinality({ a.t : a \in { b \in admitted["ip1"] : b.t.tick = tick } })
            <= RateLimitRequests

\* an Allow call made for a sorted set at tick c, no Redis call failing
AllowAt(set, c) ==
    Allow(set, NoTime, RateLimitRequests, RateLimitWindow, Instant(c, 0), {})

\* the call that returned last, a GetRemainingRequests with no Redis failure,
\* left the sorted set such that every Allow call made from then on returns
\* what it would have returned, and leaves what it would have left, had the
\* call not been made; and it added no entry
RemainingLeavesAdmission ==
    (rl_last.op = "remaining" /\ rl_last.faults = {}) =>
        /\ rl_last.after \subseteq rl_last.before
        /\ \A c \in rl_last.t.tick..(MaxTime * TicksPerSecond) :
              AllowAt(rl_last.after, c) = AllowAt(rl_last.before, c)

\* C20: GetRemainingRequests (no Redis call failing) returns
\* max(0, limit - count), count being the number of entries of the key less
\* than a window old; it adds no entry and leaves the outcome of every later
\* Allow call as it was.
C20_RemainingIsLimitMinusCount ==
    /\ (rl_last.op = "remaining" /\ rl_last.faults = {}) =>
          /\ rl_last.err = None
          /\ rl_last.remaining =
                Remaining(RateLimitRequests, Cardinality(Young(rl_last.before, rl_last.t)))
    /\ RemainingLeavesAdmission

\* C21: every entry RefreshToken or Logout puts on the denylist has, as its
\* time to live, the remaining validity of the token at that moment: the
\* entry expires at the instant the token expires (t + (exp - t)).
C21_DenylistTTLIsRemainingValidity ==
    \A e \in blacklist : e.expire_at = e.token.claims.exp

\* C22: ValidateRefreshToken fails for every token whose type claim is not
\* "refresh" (every access token issued, and the same token with a signature
\* that does not verify); RefreshToken called with such a token answers 401,
\* makes no store call and leaves the refresh_tokens table and the blacklist
\* as they were.
C22_AccessTokenNotRefreshable ==
    /\ [](\A tok \in TokenInputs :
            ~IsRefreshTyped(tok) => ValidateRefreshToken(tok, now).err # None)
    /\ [][ \A p \in Workers : \A tok \in NotRefreshTokens :
              RT_Start(p, tok) =>
                  /\ last'.res.err # None
                  /\ last'.res.http.status = 401
                  /\ pc' = pc
                  /\ refresh_tokens' = refresh_tokens
                  /\ blacklist' = blacklist
       ]_vars

\* RefreshToken has returned 401 while an access token of valid signature,
\* not yet expired, is among the tokens it is called with
C22_Witness ==
    /\ last.call.op = "refresh"
    /\ last.res.http.status = 401
    /\ \E tok \in issued : IsAccessToken(tok) /\ JWTValidateToken(tok, now).err = None

\* the error is the wrapped error of a driver call that failed
StoreFailure(err) == err # None /\ "driver error" \in Range(err.msg)

\* C23: a Register or Login call that returns the error of a failed store
\* call is answered with a 5xx status, and the message of the response does
\* not carry the text of the store error.
C23_StoreFailureIsUnavailable ==
    (last.call.op \in {"register", "login"} /\ StoreFailure(last.res.err)) =>
        /\ last.res.http.status \in 500..599
        /\ "driver error" \notin Range(last.res.http.message)

\* the goroutine has sent a result
Finished(r) == sd.task[r] \in {"nil", "err"}

\* C25: App.Shutdown starts the shutdown of the server and of the
\* infrastructure, and infrastructure.Shutdown the close of each of its four
\* resources, before any of their results exists (so whatever the outcome or
\* the duration of the others); Shutdown returns only after every result was
\* received, and it returns an error exactly if at least one close failed.
C25_ShutdownCollectsAll ==
    /\ (\E r \in Tasks : Finished(r)) => \A r \in Tasks : sd.task[r] # "none"
    /\ (\E r \in Closers : Finished(r)) => \A r \in Closers : sd.task[r] # "none"
    /\ sd.app = "returned" =>
          /\ \A r \in Tasks \cup Closers : Finished(r)
          /\ Len(sd.infraGot) = Cardinality(Closers)
          /\ Len(sd.appGot) = Cardinality(Tasks)
          /\ sd.result = "err" <=> \E r \in Closers \cup {"server"} : sd.task[r] = "err"

\* Shutdown has returned an error; the only close that failed is that of
\* Redis, and its result was neither the first nor the last one received
C25_Witness ==
    /\ sd.app = "returned"
    /\ sd.result = "err"
    /\ \A r \in Closers \cup {"server"} : sd.task[r] = "err" <=> r = "redis"
    /\ sd.infraGot[1] = "nil"
    /\ sd.infraGot[4] = "nil"

\* the ping of the store succeeded before the deadline of the check
InTime(r) == hc.ping[r] = "nil" /\ ~hc.late[r]

\* C26: /health starts both pings before it waits for a result, answers
\* after both results, and answers 200 exactly if both pings succeeded
\* within the timeout of the check, 503 otherwise.
C26_HealthPassIffBothPing ==
    /\ hc.phase = "checking" => \A r \in Pinged : hc.ping[r] # "none"
    /\ hc.phase = "done" =>
          /\ \A r \in Pinged : hc.ping[r] \in {"nil", "err"}
          /\ hc.status = IF \A r \in Pinged : InTime(r) THEN 200 ELSE 503

\* C27: Load returns an error and no configuration whenever JWT_SECRET is
\* not set or has fewer than 32 characters, and returns a configuration and
\* no error when it has at least 32 characters and no other variable is set.
C27_LoadFailsFast ==
    cfg.op = "load" =>
        /\ (~cfg.env.JWT_SECRET.set \/ CharLen(cfg.env.JWT_SECRET.v) < MinSecretLen)
               => (cfg.res.err # None /\ cfg.res.config = None)
        /\ (/\ cfg.env.JWT_SECRET.set
            /\ CharLen(cfg.env.JWT_SECRET.v) >= MinSecretLen
            /\ ~cfg.env.JWT_ACCESS_TOKEN_EXPIRY.set)
               => (cfg.res.err = None /\ cfg.res.config # None)

\* C28: every Allow call that admits a request adds exactly one new entry to
\* the sorted set of its key, and the members of two distinct admitted
\* requests of a key differ, also when both read the same instant.
C28_AdmissionAddsOneEntry ==
    /\ [][\A p \in Workers :
             (rl[p].pc = "add" /\ rl'[p].pc = "expire")
                 => ZCard(zset'[rl[p].key]) = ZCard(zset[rl[p].key]) + 1]_vars
    /\ [](\A k \in Keys : \A a, b \in admitted[k] : a.id # b.id => Member(a.t) # Member(b.t))

\* C29: a RefreshToken call that is abandoned or returns an error has not
\* consumed the token it was given: the call has neither deleted the record
\* of the token nor put the token on the blacklist.
C29_FailedRotationKeepsToken ==
    [][\A p \in Workers :
          (/\ pc[p] # "idle" /\ call[p].op = "refresh"
           /\ pc'[p] = "idle"
           /\ (~last'.res.done \/ last'.res.err # None))
              => /\ ~loc[p].deleted
                 /\ ~(loc[p].addTried /\ "AddToken" \notin loc[p].failed)]_vars

\* C30: once a Logout(owner, T) call has revoked T (it found the record of T
\* belonging to the caller, no store call of it failed, and it has
\* returned), no RefreshToken(T) call returns a pair, whatever the
\* interleaving of the two calls.
C30_NoPairOnceLoggedOut ==
    [][\A r \in rotations' \ rotations :
          ~\E l \in logouts : l.token = r.token /\ l.owned /\ l.failed = {}]_vars

\* the tokens a RefreshToken or a Logout call that returned has put on the
\* blacklist
WasDenylisted ==
    { l.token : l \in { x \in logouts :
                           x.owned /\ x.failed \cap {"GetByTokenHash", "AddToken"} = {} } }
        \cup { r.token : r \in { x \in rotations : "AddToken" \notin x.failed } }

\* the expiry of the record of tok has been reached, if there is a record
RecordExpiryReached(tok, t) ==
    \A r \in refresh_tokens : r.token_hash = hashToken(tok) => t >= r.expires_at

\* C31: a blacklist entry written by RefreshToken or Logout does not expire
\* before the token: an entry expires no earlier than the exp claim of its
\* token and the expires_at of its record, and a token that was blacklisted
\* and has no entry any more has reached both and fails verification.
C31_DenylistOutlivesToken ==
    /\ \A e \in blacklist :
          /\ e.expire_at >= e.token.claims.exp
          /\ RecordExpiryReached(e.token, e.expire_at)
    /\ \A tok \in WasDenylisted :
          ~OnDenylist(tok) =>
              /\ now >= tok.claims.exp
              /\ RecordExpiryReached(tok, now)
              /\ ValidateRefreshToken(tok, now).err # None

\* the entry of a token a Logout had blacklisted is gone
C31_Witness ==
    \E tok \in WasDenylisted :
        /\ ~OnDenylist(tok)
        /\ \A e \in blacklist : e.token # tok
        /\ ValidateRefreshToken(tok, now).err # None

\* C32: at the moment a RefreshToken(T) call returns a pair, T is on the
\* blacklist or the record of T is gone, whichever of the blacklist add and
\* the record delete failed.
C32_PairOnlyAfterConsume ==
    [][\A r \in rotations' \ rotations :
          \/ \E e \in blacklist' : e.token = r.token /\ now' < e.expire_at
          \/ ~\E x \in refresh_tokens' : x.token_hash = hashToken(r.token)]_vars

\* the stores and the set of issued tokens are left as they are
NoWrite ==
    /\ refresh_tokens' = refresh_tokens
    /\ blacklist' = blacklist
    /\ users' = users
    /\ issued' = issued

\* C33: a RefreshToken call that one of its checks rejects (codec, record
\* absent or expired, token blacklisted, user missing or inactive, a store
\* read failing) has written nothing: neither the step that rejects it nor
\* an earlier step of the call changes the refresh_tokens table, the
\* blacklist or the users table, and no token is issued.
C33_RejectedRotationWritesNothing ==
    [][ /\ \A p \in Workers :
              (/\ call[p].op = "refresh"
               /\ pc[p] \in {"rt_lookup", "rt_blcheck", "rt_getuser"}
               /\ pc'[p] = "idle"
               /\ last'.res.done)
                  => /\ last'.res.err # None
                     /\ NoWrite
                     /\ ~loc[p].addTried /\ ~loc[p].delTried
        /\ (last' # last /\ last'.call.op = "refresh" /\ pc' = pc) => NoWrite
      ]_vars

\* a RefreshToken call has been rejected for a record that ran out after the
\* codec had let the token through, while a record and a blacklist entry
\* were there to be changed
C33_Witness ==
    /\ last.call.op = "refresh"
    /\ last.res.done
    /\ last.call.why = "refresh token expired"
    /\ refresh_tokens # {}
    /\ blacklist # {}

\* C35: when the blacklist lookup fails, ValidateToken returns an error and
\* no claims, for every token, and the middleware answers 401; a
\* RefreshToken call whose blacklist lookup fails returns an error, goes no
\* further than the lookup and issues no token.
C35_FailsClosed ==
    /\ \A tok \in TokenInputs :
          \E v \in { ValidateToken(tok, blacklist, now, TRUE) } : v.err # None /\ v.claims = None
    /\ (last.call.op = "validate" /\ ~last.call.clean)
          => (last.res.err # None /\ last.res.http.status = 401)
    /\ \A p \in Workers : call[p].op = "refresh" => pc[p] \in {"rt_lookup", "rt_blcheck"}
    /\ rotations = {}
    /\ (last.call.op = "refresh" /\ last.res.done) => Unauthorized(last.res)

\* a token that is signed, not expired and not blacklisted has been refused
\* by the middleware because the lookup failed, after a rotation was started
C35_Witness ==
    /\ last.call.op = "validate"
    /\ ~last.call.clean
    /\ ~last.call.denied
    /\ JWTValidateToken(last.call.token, now).err = None
    /\ last.res.http.status = 401
    /\ \E p \in Workers : pc[p] = "rt_blcheck"

\* C36: the middleware passes the request to the next handler when Allow
\* returns an error of Redis, and when Allow admits it; when Allow denies it
\* (the key has `limit` entries in the window) the middleware answers 429
\* and does not call the next handler.
C36_FailOpenDenyClosed ==
    rl_last.op = "middleware" =>
        /\ (rl_last.err # None /\ rl_last.count < RateLimitRequests) =>
                (rl_last.next /\ rl_last.status = 0)
        /\ rl_last.count >= RateLimitRequests =>
                (~rl_last.allowed /\ ~rl_last.next /\ rl_last.status = 429)
        /\ rl_last.allowed => rl_last.next

\* a request has been denied with the retry time in the message, after the
\* requests that filled the window
C36_Witness ==
    /\ rl_last.op = "middleware"
    /\ rl_last.count >= RateLimitRequests
    /\ rl_last.faults = {}
    /\ rl_last.status = 429
    /\ ~rl_last.next

\* C37: an Allow call that does not admit the request adds no entry: the
\* sorted set it leaves holds only entries that were there before, and
\* every later Allow call decides on it as it would have decided on the set
\* before the denied call.
C37_DenialAddsNoEntry ==
    (rl_last.op = "allow" /\ ~rl_last.allowed) =>
        /\ rl_last.after \subseteq rl_last.before
        /\ \A c \in rl_last.t.tick..(MaxTime * TicksPerSecond) :
              AllowAt(rl_last.after, c) = AllowAt(rl_last.before, c)

\* a request has been denied for a key that holds `limit` entries, and the
\* entries are still the ones that were there
C37_Witness ==
    /\ rl_last.op = "allow"
    /\ rl_last.faults = {}
    /\ ~rl_last.allowed
    /\ rl_last.count >= RateLimitRequests
    /\ rl_last.after = rl_last.before
    /\ ZCard(rl_last.after) = RateLimitRequests

\* the digests of the refresh tokens issued so far
DigestsCreated == { hashToken(tok) : tok \in { x \in issued : IsRefreshTyped(x) } }

\* C38: no operation removes a blacklist entry (an entry goes only when its
\* time to live has run out), and no operation creates a record for a digest
\* a record was created for before: a token whose record is gone never has
\* a record again.
C38_ConsumptionIrreversible ==
    [][ /\ \A e \in blacklist :
              now' < e.expire_at =>
                  \E f \in blacklist' : f.token = e.token /\ f.expire_at >= e.expire_at
        /\ \A r \in refresh_tokens' \ refresh_tokens : r.token_hash \notin DigestsCreated
        /\ \A tok \in issued : (IsRefreshTyped(tok) /\ ~RecordExists(tok)) =>
              ~\E r \in refresh_tokens' : r.token_hash = hashToken(tok)
      ]_vars

\* a rotation has consumed a token and stored the record of a new one, and
\* a logout has consumed a token
C38_Witness ==
    /\ \E r \in rotations : /\ ~RecordExists(r.token) /\ OnDenylist(r.token)
                             /\ RecordExists(r.new)
    /\ \E l \in logouts : l.owned /\ l.failed = {} /\ ~RecordExists(l.token)

\* C39: ValidateToken fails for every refresh token issued, also while it is
\* signed, not expired and not blacklisted, and the middleware answers 401
\* to a request that carries one.
C39_RefreshTokenNeverAuthenticates ==
    /\ \A tok \in issued :
          IsRefreshTyped(tok) =>
              \E v \in { ValidateToken(tok, blacklist, now, FALSE) } :
                  v.err # None /\ v.claims = None
    /\ (last.call.op = "validate" /\ IsRefreshTyped(last.call.token))
          => (last.res.err # None /\ last.res.http.status = 401)

\* an issued refresh token that is signed, not expired and not blacklisted
\* has been refused by the middleware, the blacklist lookup succeeding
C39_Witness ==
    /\ last.call.op = "validate"
    /\ last.call.token \in issued
    /\ IsRefreshTyped(last.call.token)
    /\ ParseOK(last.call.token, now)
    /\ ~last.call.denied
    /\ last.call.clean
    /\ last.res.http.status = 401

\* no goroutine that is about to send finds its channel full
NoSenderBlocks ==
    /\ \A r \in Closers : sd.task[r] = "started" => Len(sd.infraErrs) < InfraErrsCap
    /\ sd.task["server"] = "started" => Len(sd.appErrs) < AppErrsCap
    /\ (sd.task["infra"] = "joining" /\ Len(sd.infraGot) + 1 = Cardinality(Closers))
          => Len(sd.appErrs) < AppErrsCap
    /\ run.serve = "listening" => Len(run.errChan) < ErrChanCap

\* a Shutdown that has returned received one result from each goroutine it
\* started, and no goroutine is left running
ReceivedAllStarted ==
    /\ sd.task["infra"] \in {"nil", "err"} =>
          /\ Len(sd.infraGot) = Cardinality(Closers)
          /\ \A r \in Closers : sd.task[r] \in {"nil", "err"}
          /\ sd.infraErrs = << >>
    /\ sd.app = "returned" =>
          /\ Len(sd.appGot) = Cardinality(Tasks)
          /\ \A r \in Tasks \cup Closers : sd.task[r] \in {"nil", "err"}
          /\ sd.appErrs = << >>

\* Run calls Shutdown once, and only after the context was cancelled or the
\* server failed
ShutdownOnce ==
    /\ run.shutdowns <= 1
    /\ run.shutdowns = 1 => run.cancelled \/ run.serve = "failed"
    /\ run.pc = "returned" => run.shutdowns = 1

\* a Shutdown that was called returns, and so does Run
ShutdownTerminates ==
    /\ (sd.task["infra"] = "started") ~> (sd.task["infra"] \in {"nil", "err"})
    /\ (sd.app = "waiting") ~> (sd.app = "returned")
    /\ (run.pc = "shutdown") ~> (run.pc = "returned")

\* C40: no goroutine of the shutdown blocks on sending its result, a Shutdown
\* that returned received as many results as goroutines were started, Run
\* calls Shutdown exactly once and only after the context was cancelled or the
\* server failed, and a Run that returns after the server failed returns the
\* error of the server
C40_RunReturnsServerError ==
    /\ NoSenderBlocks
    /\ ReceivedAllStarted
    /\ ShutdownOnce
    /\ (run.pc = "returned" /\ run.serve = "failed") =>
          run.result \in {"server", "server+shutdown"}

\* the parts of C40 about the channels, the results and the single call
C40_ShutdownSafe == NoSenderBlocks /\ ReceivedAllStarted /\ ShutdownOnce

TypeOK ==
    /\ now \in 0..MaxTime
    /\ requests \in 0..MaxRequests
    /\ calls \in 0..MaxRequests
    /\ sub \in 0..(TicksPerSecond - 1)
    /\ \A p \in Workers : pc[p] \in {"idle", "rt_lookup", "rt_blcheck", "rt_getuser", "rt_bladd",
                                     "rt_delete", "rt_generate", "lo_lookup", "lo_bladd", "lo_delete",
                                     "rg_lookup", "rg_create", "rg_generate",
                                     "lg_lookup", "lg_update", "lg_generate"}

====
